---- MODULE Spec2Model ----
(***************************************************************************)
(* Dietary dashboard: the spreadsheet parser of the sync script            *)
(* (parseSheetData, parseRestrictionCell) and the summary generation of    *)
(* the DietaryRestrictionsTool component.                                  *)
(*                                                                         *)
(* A JavaScript string is modelled as the sequence of its characters, each *)
(* character a one-character TLA+ string, so that trim, toLowerCase,       *)
(* includes and the regular expression of parseRestrictionCell are         *)
(* computed character by character.                                        *)
(***************************************************************************)
EXTENDS Integers, Sequences, FiniteSets, TLC

VARIABLES
    rows,          \* the grid handed to parseSheetData (rows of cells)
    spreadsheetId, \* GOOGLE_SPREADSHEET_ID is set
    credentials,   \* what the credentials file or variable holds
    source,        \* what the spreadsheet service answers: [kind, values]
    testMode,      \* main(testMode)
    disk,          \* the output directory and file can be written
    dataFile,      \* the roster data file: [state, content]
    exitCode,      \* Running, or the code the process ended with
    pc,            \* position of the sync run: "parse", "parsed", "failed"
    dietaryData,   \* the roster parseSheetData returned, or NoRoster
    error,         \* code of the error the run ended with, or NoError
    variant,       \* which DietaryRestrictionsTool is mounted: "stepped", "single"
    data,          \* the roster the component is given (the synced data file)
    location,      \* query parameters of window.location: [attendees, meal]
    mounted,       \* the mount effect (URL load) has run
    effectError,   \* the error the mount effect threw, or NoError
    selectedAttendees,
    mealName,
    summary,       \* the Summary, or NullSummary for null
    currentStep,   \* 1 = selection, 2 = summary
    searchInput,
    showDropdown,
    highlightedIndex,
    lastCall,      \* arguments of the generateSummary call that set summary
    history,       \* the session history of the tab: [tracked, entries, index]
    focus,         \* where the keyboard focus is: "input", "elsewhere", "untracked"
    blurTimers,    \* the pending timers of handleSearchBlur: <<[id, refocused]>>
    blurTimeoutRef,\* blurTimeoutRef.current: the id of a timer, 0 for null
    copied,        \* the "copied" mark of the copy button
    clipboard,     \* the text written to the clipboard, or NoText
    formatCalls,   \* the formatSummaryAsText calls made: <<[summary, text]>>
    downloaded,    \* useState(false): the download button shows its confirmation
    download,      \* the file handed to the browser: [done, filename, text]
    shareFlags,    \* useState(false) of shared and of urlCopied
    sharedLink,    \* the link given away last: [done, url, summary]
    otherEntries,  \* the entries of otherMap, handed to sortDietaryRestrictions
    sortedOther    \* the array sortDietaryRestrictions returned, or NotSorted

runVars == <<spreadsheetId, credentials, source, testMode, disk, dataFile, exitCode>>
syncVars == <<rows, pc, dietaryData, error, runVars>>
focusVars == <<focus, blurTimers, blurTimeoutRef>>
pageVars == <<history, focusVars>>
toolVars == <<variant, data, location, mounted, effectError, selectedAttendees,
              mealName, summary, currentStep, searchInput, showDropdown,
              highlightedIndex, lastCall, pageVars>>
downloadVars == <<downloaded, download>>
shareVars == <<shareFlags, sharedLink>>
exportVars == <<copied, clipboard, formatCalls, downloadVars, shareVars>>
sortVars == <<otherEntries, sortedOther>>
vars == <<syncVars, toolVars, exportVars, sortVars>>

----------------------------------------------------------------------------
(* Strings *)

UpperChars == <<"A","B","C","D","E","F","G","H","I","J","K","L","M",
                "N","O","P","Q","R","S","T","U","V","W","X","Y","Z">>
LowerChars == <<"a","b","c","d","e","f","g","h","i","j","k","l","m",
                "n","o","p","q","r","s","t","u","v","w","x","y","z">>

\* String.prototype.trim strips white space and line terminators
WhiteSpace == {" ", "\t", "\n"}
\* the '.' of a regular expression matches anything but a line terminator
LineTerminators == {"\n"}

\* the lower-case letter of every upper-case letter
LowerOf ==
    [c \in {UpperChars[i] : i \in 1..Len(UpperChars)} |->
        LowerChars[CHOOSE i \in 1..Len(UpperChars) : UpperChars[i] = c]]

toLowerChar(c) == IF c \in DOMAIN LowerOf THEN LowerOf[c] ELSE c

toLowerCase(s) == [i \in 1..Len(s) |-> toLowerChar(s[i])]

trim(s) ==
    LET keep == {i \in 1..Len(s) : s[i] \notin WhiteSpace}
    IN  IF keep = {} THEN <<>>
        ELSE LET lo == CHOOSE i \in keep : \A k \in keep : i <= k
                 hi == CHOOSE i \in keep : \A k \in keep : i >= k
             IN  SubSeq(s, lo, hi)

includes(s, sub) ==
    \E i \in 0..(Len(s) - Len(sub)) : SubSeq(s, i + 1, i + Len(sub)) = sub

\* Array.prototype.includes on an array of strings
arrayIncludes(arr, x) == \E i \in 1..Len(arr) : arr[i] = x

\* cellValue.match(/\((.*?)\)/): the leftmost "(" from which a ")" is reached
\* without crossing a line terminator, up to the nearest such ")".
\* The result is <<captured group>> or <<>> for null.
matchParens(s) ==
    LET closes(i) == {j \in (i + 1)..Len(s) :
                        /\ s[j] = ")"
                        /\ \A k \in (i + 1)..(j - 1) : s[k] \notin LineTerminators}
        opens == {i \in 1..Len(s) : s[i] = "(" /\ closes(i) # {}}
    IN  IF opens = {} THEN <<>>
        ELSE LET i == CHOOSE o \in opens : \A k \in opens : o <= k
                 j == CHOOSE c \in closes(i) : \A k \in closes(i) : c <= k
             IN  <<SubSeq(s, i + 1, j - 1)>>

\* string literals of the sync script
sAirborne    == <<"a","i","r","b","o","r","n","e">>
sSmallAmount == <<"s","m","a","l","l"," ","a","m","o","u","n","t">>
sNo          == <<"n","o">>

----------------------------------------------------------------------------
(* The sync script *)

\* severity and error-code literals
sevYes          == <<"y","e","s">>
sevAirborne     == sAirborne
sevSmallAmounts == <<"s","m","a","l","l"," ","a","m","o","u","n","t","s">>

NoError == "none"
NoData  == [members |-> <<>>, restrictionsList |-> <<>>]

\* faulty variant: the notes taken from the lower-cased value
parseRestrictionCell_lowerNotes(item, cellValue) ==
    LET lowerValue == toLowerCase(cellValue)
        notesMatch == matchParens(cellValue)
    IN  IF includes(lowerValue, sAirborne)
        THEN [item |-> item, severity |-> sevAirborne,
              notes |-> IF notesMatch # <<>> THEN notesMatch[1] ELSE <<>>]
        ELSE IF includes(lowerValue, sSmallAmount)
        THEN [item |-> item, severity |-> sevSmallAmounts, notes |-> lowerValue]
        ELSE [item |-> item, severity |-> sevYes, notes |-> lowerValue]

\* function parseRestrictionCell(item, cellValue)
parseRestrictionCell(item, cellValue) ==
    LET lowerValue == toLowerCase(cellValue)
        notesMatch == matchParens(cellValue)
    IN  IF includes(lowerValue, sAirborne)
        THEN [item |-> item, severity |-> sevAirborne,
              notes |-> IF notesMatch # <<>> THEN notesMatch[1] ELSE <<>>]
        ELSE IF includes(lowerValue, sSmallAmount)
        THEN [item |-> item, severity |-> sevSmallAmounts, notes |-> cellValue]
        ELSE [item |-> item, severity |-> sevYes, notes |-> cellValue]

\* faulty variant: the cell is read without trim()
cellAt_untrimmed(row, j) == IF j + 1 <= Len(row) THEN row[j + 1] ELSE <<>>

\* const cellValue = row[j]?.toString().trim() || "";  (j is the 0-based column)
cellAt(row, j) == IF j + 1 <= Len(row) THEN trim(row[j + 1]) ELSE <<>>

\* faulty variant: the comparison with 'no' without toLowerCase()
isRestricted_caseSensitive(cellValue) == cellValue # <<>> /\ cellValue # sNo

\* if (cellValue && cellValue.toLowerCase() !== 'no')
isRestricted(cellValue) == cellValue # <<>> /\ toLowerCase(cellValue) # sNo

\* faulty variant: the loop bounded by the row only
columnInRange_rowOnly(j, row, headers) == j < Len(row)

\* for (let j = 1; j < row.length && j <= headers.length; j++)
columnInRange(j, row, headers) == j < Len(row) /\ j <= Len(headers)

\* faulty variant: an item a member already has is not recorded again
RECURSIVE processColumns_dedup(_, _, _, _, _)
processColumns_dedup(row, j, headers, restrictionName, acc) ==
    IF acc.threw \/ ~columnInRange(j, row, headers) THEN acc
    ELSE LET cellValue == cellAt(row, j)
         IN  IF ~isRestricted(cellValue)
             THEN processColumns_dedup(row, j + 1, headers, restrictionName, acc)
             ELSE IF j > Len(acc.members)
             THEN [acc EXCEPT !.threw = TRUE]
             ELSE IF \E r \in 1..Len(acc.members[j].restrictions) :
                        acc.members[j].restrictions[r].item = restrictionName
             THEN processColumns_dedup(row, j + 1, headers, restrictionName, acc)
             ELSE processColumns_dedup(row, j + 1, headers, restrictionName,
                    [acc EXCEPT !.members[j].restrictions =
                        Append(@, parseRestrictionCell(restrictionName, cellValue))])

\* the inner loop of parseSheetData over the member columns of one row.
\* acc = [members, threw]; members[j - 1] of a column without a member is
\* undefined and its .restrictions raises a TypeError.
RECURSIVE processColumns(_, _, _, _, _)
processColumns(row, j, headers, restrictionName, acc) ==
    IF acc.threw \/ ~columnInRange(j, row, headers) THEN acc
    ELSE LET cellValue == cellAt(row, j)
         IN  IF ~isRestricted(cellValue)
             THEN processColumns(row, j + 1, headers, restrictionName, acc)
             ELSE IF j > Len(acc.members)
             THEN [acc EXCEPT !.threw = TRUE]
             ELSE processColumns(row, j + 1, headers, restrictionName,
                    [acc EXCEPT !.members[j].restrictions =
                        Append(@, parseRestrictionCell(restrictionName, cellValue))])

\* faulty variant: the label tested without trim()
isSkippedRow_untrimmed(row) == Len(row) = 0 \/ row[1] = <<>>

\* const restrictionName = row[0]?.trim(); if (!restrictionName) continue;
isSkippedRow(row) == Len(row) = 0 \/ trim(row[1]) = <<>>

\* faulty variant: the label pushed without the includes() test
addRestrictionName_always(restrictionsList, restrictionName) ==
    Append(restrictionsList, restrictionName)

\* if (!restrictionsList.includes(restrictionName)) restrictionsList.push(...)
addRestrictionName(restrictionsList, restrictionName) ==
    IF arrayIncludes(restrictionsList, restrictionName) THEN restrictionsList
    ELSE Append(restrictionsList, restrictionName)

\* the outer loop of parseSheetData: for (let i = 1; i < rows.length; i++)
\* (i is the 0-based row index)
RECURSIVE processRows(_, _, _, _)
processRows(grid, i, headers, acc) ==
    IF acc.threw \/ i >= Len(grid) THEN acc
    ELSE LET row == grid[i + 1]
         IN  IF isSkippedRow(row) THEN processRows(grid, i + 1, headers, acc)
             ELSE LET restrictionName == trim(row[1])
                      list == addRestrictionName(acc.restrictionsList, restrictionName)
                      cols == processColumns(row, 1, headers, restrictionName,
                                [members |-> acc.members, threw |-> FALSE])
                  IN  processRows(grid, i + 1, headers,
                        [members |-> cols.members, restrictionsList |-> list,
                         threw |-> cols.threw])

\* faulty variant: only the empty grid is refused
hasInsufficientData_empty(grid) == Len(grid) < 1

\* faulty variant: the label column kept among the members
memberHeaders_unsliced(grid) == grid[1]

\* if (rows.length < 2) throw new ContentSyncError(.., 'INSUFFICIENT_DATA')
hasInsufficientData(grid) == Len(grid) < 2

\* const headers = rows[0].slice(1);
memberHeaders(grid) == SubSeq(grid[1], 2, Len(grid[1]))

\* function parseSheetData(rows): [error, members, restrictionsList]
parseSheetData(grid) ==
    IF hasInsufficientData(grid)
    THEN [error |-> "INSUFFICIENT_DATA", members |-> <<>>, restrictionsList |-> <<>>]
    ELSE LET headers == memberHeaders(grid)
             members == [k \in 1..Len(headers) |->
                            [name |-> trim(headers[k]), restrictions |-> <<>>]]
             acc == processRows(grid, 1, headers,
                      [members |-> members, restrictionsList |-> <<>>, threw |-> FALSE])
         IN  IF acc.threw
             THEN [error |-> "TypeError", members |-> <<>>, restrictionsList |-> <<>>]
             ELSE [error |-> NoError, members |-> acc.members,
                   restrictionsList |-> acc.restrictionsList]

----------------------------------------------------------------------------
(* The grids the sync run is given *)

MaxDataRows == 2   \* data rows under the header row of a grid
MaxPieces   == 3   \* pieces a cell value of the one-cell grids is made of

RECURSIVE concat(_)
concat(ss) == IF ss = <<>> THEN <<>> ELSE Head(ss) \o concat(Tail(ss))

SeqsUpTo(S, n) == UNION {[1..k -> S] : k \in 0..n}

\* pieces of cell values: letters of "no", white space, the severity
\* keywords in several letter cases, parentheses and notes
PiecePool ==
    { <<"n">>,
      <<"o">>,
      <<"N">>,
      <<"O">>,
      <<" ">>,
      <<"\n">>,
      <<"A","i","r","b","o","r","n","e">>,
      <<"(","t","r","a","c","e",")">>,
      <<"(">>,
      <<")">>,
      <<"(","a","\n","b",")">>,
      <<"S","m","a","l","l"," ","A","m","o","u","n","t">> }

\* the cell values the documentation and the specification name
NamedCells ==
    { <<"S","m","a","l","l"," ","A","m","o","u","n","t"," ","o","k">>,
      <<"N","o","t"," ","s","u","r","e">>,
      <<"A","i","r","b","o","r","n","e"," ","(","t","r","a","c","e",")">>,
      <<"A","I","R","B","O","R","N","E">>,
      <<"s","m","a","l","l"," ","a","m","o","u","n","t","s">>,
      <<"Y","e","s">> }

CellValues == NamedCells \cup {concat(ps) : ps \in SeqsUpTo(PiecePool, MaxPieces)}

\* header rows: none, a label column only, one member, two members
HeaderPool ==
    { <<>>,
      << <<>> >>,
      << <<>>, <<" ","A"," ">> >>,
      << <<>>, <<"A">>, <<"B">> >> }

LabelPool == { <<" ">>, <<"N","u","t","s">>, <<" ","N","u","t","s"," ">>, <<"D","a","i","r","y">> }

CellPool == { <<"N","o">>, <<"A","i","r","b","o","r","n","e"," ","(","t","r","a","c","e",")">> }

MaxRowLen == CHOOSE n \in 0..10 : /\ \E h \in HeaderPool : Len(h) = n
                                  /\ \A h \in HeaderPool : Len(h) <= n

\* a data row: no cell at all, or a label followed by up to as many cells
\* as the widest header has members (so rows shorter than, as long as and
\* longer than the header all occur)
RowPool ==
    {<<>>} \cup {<<l>> \o cs : l \in LabelPool,
                               cs \in SeqsUpTo(CellPool, MaxRowLen - 1)}

\* grids of every shape over the small pools
ShapeGrids ==
    {<<>>} \cup {<<h>> \o rs : h \in HeaderPool, rs \in SeqsUpTo(RowPool, MaxDataRows)}

\* one header, one data row, one cell of any value
OneCellGrids ==
    {<< << <<>>, <<"A">> >>, << <<"D","a","i","r","y">>, c >> >> : c \in CellValues}

\* a spreadsheet with the same label in two rows
RepeatedLabelGrid ==
    << << <<>>, <<"E","v","e">>, <<"A","b","e">> >>,
       << <<"N","u","t","s">>, <<"Y","e","s">>, <<"A","i","r","b","o","r","n","e">> >>,
       << <<"N","u","t","s">>, <<"A","i","r","b","o","r","n","e"," ","(","x",")">>, <<"s","m","a","l","l"," ","a","m","o","u","n","t">> >> >>

Grids == ShapeGrids \cup OneCellGrids \cup {RepeatedLabelGrid}

----------------------------------------------------------------------------
(* main(): the parse step of a sync run *)

\* URLSearchParams.get() of a parameter the URL lacks
NoParam == << "null" >>
\* useState(null) of summary
NullSummary == [present |-> FALSE, mealName |-> <<>>, attendees |-> <<>>,
                airborne |-> <<>>, other |-> <<>>, byPerson |-> <<>>]
\* no generateSummary call has set the summary
NoCall == [called |-> FALSE, attendees |-> <<>>, meal |-> <<>>, replaced |-> FALSE]

\* the clipboard before any writeText
NoText == << "null" >>
\* sortDietaryRestrictions has not returned
NotSorted == [done |-> FALSE, value |-> <<>>]

\* the session history is not followed: no action of the specification
\* goes back or forward
NoHistory == [tracked |-> FALSE, entries |-> <<>>, index |-> 0]

\* the session history and the focus are not followed, no timer is pending
PageIdle ==
    /\ history = NoHistory
    /\ focus = "untracked"
    /\ blurTimers = <<>>
    /\ blurTimeoutRef = 0

\* neither confirmation of the share button is shown
NoFlags == [shared |-> FALSE, urlCopied |-> FALSE]
\* no link was shared or copied
NoLink == [done |-> FALSE, url |-> <<>>, summary |-> NullSummary]
\* no link.click() yet
NoDownload == [done |-> FALSE, filename |-> <<>>, text |-> <<>>]

\* nothing was copied or downloaded
ExportIdle ==
    /\ copied = FALSE /\ clipboard = NoText /\ formatCalls = <<>>
    /\ downloaded = FALSE /\ download = NoDownload
    /\ shareFlags = NoFlags /\ sharedLink = NoLink

\* no array is being sorted
SortIdle == otherEntries = <<>> /\ sortedOther = NotSorted

\* no component is mounted during a sync run
ToolIdle ==
    /\ variant = "stepped"
    /\ data = NoData
    /\ location = [attendees |-> NoParam, meal |-> NoParam]
    /\ mounted = FALSE
    /\ effectError = NoError
    /\ selectedAttendees = <<>>
    /\ mealName = <<>>
    /\ summary = NullSummary
    /\ currentStep = 1
    /\ searchInput = <<>>
    /\ showDropdown = FALSE
    /\ highlightedIndex = -1
    /\ lastCall = NoCall

\* the process has not ended
Running == -1
\* the data file as the run found it
PreviousFile == [state |-> "previous", content |-> NoData]

\* a production run that has fetched the grid
FetchedRun(grid) ==
    /\ spreadsheetId = TRUE
    /\ credentials = "service_account"
    /\ source = [kind |-> "values", values |-> grid]
    /\ testMode = FALSE
    /\ disk = "ok"
    /\ dataFile = PreviousFile
    /\ exitCode = Running

\* the page is built from the data file of an earlier run
RunIdle == FetchedRun(<<>>)

InitParse ==
    /\ rows \in Grids
    /\ FetchedRun(rows)
    /\ pc = "parse"
    /\ dietaryData = NoData
    /\ error = NoError
    /\ ToolIdle
    /\ ExportIdle
    /\ PageIdle
    /\ SortIdle

\* const dietaryData = parseSheetData(rows);  a throw ends the run
Parse ==
    /\ pc = "parse"
    /\ \E r \in {parseSheetData(rows)} :
           /\ error' = r.error
           /\ dietaryData' = [members |-> r.members,
                               restrictionsList |-> r.restrictionsList]
           /\ pc' = IF r.error = NoError THEN "parsed" ELSE "failed"
    /\ UNCHANGED <<rows, runVars, toolVars, exportVars, sortVars>>

NextParse == Parse

SpecParse == InitParse /\ [][NextParse]_vars

----------------------------------------------------------------------------
(* The sync run: main(testMode) *)

\* what the credentials variable or file can hold: a service account, an
\* OAuth2 client, JSON of neither kind, text JSON.parse rejects (or a file
\* that cannot be read), and a service account whose getClient() rejects
CredentialKinds == {"service_account", "oauth", "invalid", "unreadable", "client_rejected"}

\* the grids the spreadsheet can answer with
SourceGrids == {g \in ShapeGrids : Len(g) <= 2} \cup {RepeatedLabelGrid}

\* the answers of sheets.spreadsheets.values.get: values (possibly zero
\* rows), a response without values, a rejection with code 429, and any
\* other rejection
Sources ==
    {[kind |-> "values", values |-> g] : g \in SourceGrids}
      \cup {[kind |-> k, values |-> <<>>] : k \in {"novalues", "status429", "rejected"}}

InitSync ==
    /\ spreadsheetId \in BOOLEAN
    /\ credentials \in CredentialKinds
    /\ source \in Sources
    /\ testMode \in BOOLEAN
    /\ disk \in {"ok", "failing"}
    /\ dataFile = PreviousFile
    /\ exitCode = Running
    /\ rows = <<>>
    /\ pc = "config"
    /\ dietaryData = NoData
    /\ error = NoError
    /\ ToolIdle
    /\ ExportIdle
    /\ PageIdle
    /\ SortIdle

\* if (!SPREADSHEET_ID) throw new ContentSyncError(..., 'MISSING_CONFIG')
checkConfig ==
    /\ pc = "config"
    /\ IF spreadsheetId
         THEN pc' = "credentials" /\ error' = error
         ELSE pc' = "failed" /\ error' = "MISSING_CONFIG"
    /\ UNCHANGED <<rows, dietaryData, runVars, toolVars, exportVars, sortVars>>

\* the code of the error loadCredentials ends with: whatever is thrown
\* inside its try, INVALID_CREDENTIALS included, is caught and thrown again
\* as CREDENTIALS_ERROR; the promise of getClient() is returned without
\* await, so its rejection passes the catch and reaches main as it is
loadCredentialsError(c) ==
    CASE c \in {"service_account", "oauth"} -> NoError
      [] c \in {"invalid", "unreadable"}    -> "CREDENTIALS_ERROR"
      [] c = "client_rejected"              -> "Error"

\* const auth = await loadCredentials();
loadCredentials ==
    /\ pc = "credentials"
    /\ error' = loadCredentialsError(credentials)
    /\ pc' = IF error' = NoError THEN "fetch" ELSE "failed"
    /\ UNCHANGED <<rows, dietaryData, runVars, toolVars, exportVars, sortVars>>

\* the code of what the try block of fetchSheetData throws, if anything
fetchThrown(src) ==
    CASE src.kind = "status429" -> "429"
      [] src.kind = "rejected"  -> "Error"
      [] src.kind = "novalues"  -> "NO_DATA"
      [] src.kind = "values"    -> IF Len(src.values) = 0 THEN "NO_DATA" ELSE NoError

\* catch (error) { if (error.code === 429) throw RATE_LIMIT; throw API_ERROR }
fetchCatch(code) ==
    IF code = "429" THEN "RATE_LIMIT" ELSE "API_ERROR"

\* fetchSheetData(auth) as its caller sees it: the rows, or the error code
fetchSheetData(src) ==
    IF fetchThrown(src) = NoError
      THEN [error |-> NoError, rows |-> src.values]
      ELSE [error |-> fetchCatch(fetchThrown(src)), rows |-> <<>>]

\* const rows = await fetchSheetData(auth);
Fetch ==
    /\ pc = "fetch"
    /\ \E r \in {fetchSheetData(source)} :
           /\ error' = r.error
           /\ rows' = r.rows
           /\ pc' = IF r.error = NoError THEN "parse" ELSE "failed"
    /\ UNCHANGED <<dietaryData, runVars, toolVars, exportVars, sortVars>>

\* if (testMode) { ...print a sample...; return; }
testReturn ==
    /\ pc = "parsed"
    /\ testMode
    /\ pc' = "done"
    /\ exitCode' = 0
    /\ UNCHANGED <<rows, dietaryData, error, spreadsheetId, credentials, source,
                   testMode, disk, dataFile, toolVars, exportVars, sortVars>>

\* saveDietaryData reached in test mode as well
saveDietaryData_anyMode ==
    /\ pc = "parsed"
    /\ IF disk = "ok"
         THEN /\ dataFile' = [state |-> "written", content |-> dietaryData]
              /\ pc' = "done"
              /\ exitCode' = 0
              /\ error' = error
         ELSE /\ dataFile' \in {dataFile, [state |-> "truncated", content |-> NoData]}
              /\ pc' = "failed"
              /\ exitCode' = exitCode
              /\ error' = "SAVE_ERROR"
    /\ UNCHANGED <<rows, dietaryData, spreadsheetId, credentials, source,
                   testMode, disk, toolVars, exportVars, sortVars>>

\* await saveDietaryData(dietaryData): mkdir, JSON.stringify, writeFile; a
\* failure is thrown as SAVE_ERROR, and a write that failed may have left
\* the file as it was or cut short
saveDietaryData ==
    /\ pc = "parsed"
    /\ ~testMode
    /\ IF disk = "ok"
         THEN /\ dataFile' = [state |-> "written", content |-> dietaryData]
              /\ pc' = "done"
              /\ exitCode' = 0
              /\ error' = error
         ELSE /\ dataFile' \in {dataFile, [state |-> "truncated", content |-> NoData]}
              /\ pc' = "failed"
              /\ exitCode' = exitCode
              /\ error' = "SAVE_ERROR"
    /\ UNCHANGED <<rows, dietaryData, spreadsheetId, credentials, source,
                   testMode, disk, toolVars, exportVars, sortVars>>

\* catch (error) { console.error(...); process.exit(1); }
exitFailed ==
    /\ pc = "failed"
    /\ exitCode = Running
    /\ exitCode' = 1
    /\ UNCHANGED <<rows, pc, dietaryData, error, spreadsheetId, credentials, source,
                   testMode, disk, dataFile, toolVars, exportVars, sortVars>>

NextSync ==
    \/ checkConfig
    \/ loadCredentials
    \/ Fetch
    \/ Parse
    \/ testReturn
    \/ saveDietaryData
    \/ exitFailed

\* the catch block of main is synchronous: once entered it runs to
\* process.exit(1)
SpecSync == InitSync /\ [][NextSync]_vars /\ WF_vars(exitFailed)

----------------------------------------------------------------------------
(* DietaryRestrictionsTool: summary generation *)

sAttending == <<"a","t","t","e","n","d","i","n","g">>
sNone      == <<"N","o","n","e">>

\* RESTRICTION_SORT_CONFIG.priorityItems / bottomItems, lower-cased
priorityItems == << <<"v","e","g","e","t","a","r","i","a","n">>,
                    <<"v","e","g","a","n">>,
                    <<"g","l","u","t","e","n">> >>
bottomItems   == << <<"n","o","n","e">> >>

\* faulty variant: the groups compared by their number of people only
compareRestrictions_countOnly(a, b) == Len(b.people) - Len(a.people)

\* the callback of sort(): a negative, zero or positive number
compareRestrictions(a, b) ==
    LET itemALower == toLowerCase(a.item)
        itemBLower == toLowerCase(b.item)
        \* forEach over priorityItems: the last entry contained wins
        priorityOf(x) ==
            LET hits == {k \in 1..Len(priorityItems) : includes(x, priorityItems[k])}
            IN  IF hits = {} THEN -1
                ELSE (CHOOSE k \in hits : \A n \in hits : n <= k) - 1
        \* findIndex over bottomItems: the first entry equal wins
        bottomOf(x) ==
            LET hits == {k \in 1..Len(bottomItems) : x = bottomItems[k]}
            IN  IF hits = {} THEN -1
                ELSE (CHOOSE k \in hits : \A n \in hits : k <= n) - 1
        priorityA == priorityOf(itemALower)
        priorityB == priorityOf(itemBLower)
        bottomA == bottomOf(itemALower)
        bottomB == bottomOf(itemBLower)
    IN  IF priorityA # -1 /\ priorityB = -1 THEN -1
        ELSE IF priorityA = -1 /\ priorityB # -1 THEN 1
        ELSE IF priorityA # -1 /\ priorityB # -1 THEN priorityA - priorityB
        ELSE IF bottomA # -1 /\ bottomB = -1 THEN 1
        ELSE IF bottomA = -1 /\ bottomB # -1 THEN -1
        ELSE IF bottomA # -1 /\ bottomB # -1 THEN bottomA - bottomB
        ELSE Len(b.people) - Len(a.people)

\* Array.prototype.sort is stable: x goes behind the last element that
\* does not compare greater than it
RECURSIVE insertSorted(_, _)
insertSorted(sorted, x) ==
    IF sorted = <<>> THEN <<x>>
    ELSE IF compareRestrictions(sorted[Len(sorted)], x) <= 0 THEN Append(sorted, x)
    ELSE Append(insertSorted(SubSeq(sorted, 1, Len(sorted) - 1), x), sorted[Len(sorted)])

RECURSIVE sortFrom(_, _, _)
sortFrom(arr, k, sorted) ==
    IF k > Len(arr) THEN sorted ELSE sortFrom(arr, k + 1, insertSorted(sorted, arr[k]))

\* faulty variant: the array returned as it was given
sortDietaryRestrictions_unsorted(restrictionsArray) == restrictionsArray

\* function sortDietaryRestrictions(restrictionsArray)
sortDietaryRestrictions(restrictionsArray) == sortFrom(restrictionsArray, 1, <<>>)

\* faulty variant: the member name compared without toLowerCase()
isAttendee_caseSensitive(attendees, m) == arrayIncludes(attendees, m.name)

\* attendees.includes(m.name.toLowerCase())
isAttendee(attendees, m) == arrayIncludes(attendees, toLowerCase(m.name))

\* person.restrictions.filter(r => !r.item.toLowerCase().includes('attending'))
\* (the single-page component keeps every restriction)
keptRestrictions(v, person) ==
    IF v = "stepped"
    THEN SelectSeq(person.restrictions,
                   LAMBDA r : ~includes(toLowerCase(r.item), sAttending))
    ELSE person.restrictions

\* faulty variant: the members taken in the order of the attendees
attendeeDataOf_selectionOrder(v, roster, attendees) ==
    LET pick(a) == SelectSeq(roster.members, LAMBDA m : toLowerCase(m.name) = a)
        chosen == concat([k \in 1..Len(attendees) |-> pick(attendees[k])])
    IN  [k \in 1..Len(chosen) |->
            [name |-> chosen[k].name, restrictions |-> keptRestrictions(v, chosen[k])]]

\* data.members.filter(...).map(...)
attendeeDataOf(v, roster, attendees) ==
    LET chosen == SelectSeq(roster.members, LAMBDA m : isAttendee(attendees, m))
    IN  [k \in 1..Len(chosen) |->
            [name |-> chosen[k].name, restrictions |-> keptRestrictions(v, chosen[k])]]

\* if (!map.has(item)) map.set(item, []); map.get(item).push(entry)
\* (a Map keeps its keys in insertion order)
mapPush(map, item, entry) ==
    IF \E k \in 1..Len(map) : map[k].item = item
    THEN LET k == CHOOSE n \in 1..Len(map) : map[n].item = item
         IN  [map EXCEPT ![k].people = Append(@, entry)]
    ELSE Append(map, [item |-> item, people |-> <<entry>>])

\* faulty variant: the map of the others filled without the severity filter
RECURSIVE groupFrom_unfiltered(_, _, _, _, _)
groupFrom_unfiltered(attendeeData, p, r, airborne, map) ==
    IF p > Len(attendeeData) THEN map
    ELSE IF r > Len(attendeeData[p].restrictions)
    THEN groupFrom_unfiltered(attendeeData, p + 1, 1, airborne, map)
    ELSE LET person == attendeeData[p]
             x == person.restrictions[r]
         IN  IF airborne /\ x.severity # sevAirborne
             THEN groupFrom_unfiltered(attendeeData, p, r + 1, airborne, map)
             ELSE groupFrom_unfiltered(attendeeData, p, r + 1, airborne,
                    mapPush(map, x.item,
                        IF airborne
                        THEN [name |-> person.name, notes |-> x.notes]
                        ELSE [name |-> person.name, severity |-> x.severity,
                              notes |-> x.notes]))

\* attendeeData.forEach(person => person.restrictions.filter(..).forEach(..))
\* for the airborne map (airborne = TRUE) or the map of the others
RECURSIVE groupFrom(_, _, _, _, _)
groupFrom(attendeeData, p, r, airborne, map) ==
    IF p > Len(attendeeData) THEN map
    ELSE IF r > Len(attendeeData[p].restrictions)
    THEN groupFrom(attendeeData, p + 1, 1, airborne, map)
    ELSE LET person == attendeeData[p]
             x == person.restrictions[r]
         IN  IF (x.severity = sevAirborne) # airborne
             THEN groupFrom(attendeeData, p, r + 1, airborne, map)
             ELSE groupFrom(attendeeData, p, r + 1, airborne,
                    mapPush(map, x.item,
                        IF airborne
                        THEN [name |-> person.name, notes |-> x.notes]
                        ELSE [name |-> person.name, severity |-> x.severity,
                              notes |-> x.notes]))

\* faulty variant: people without a non-airborne restriction get "None"
RECURSIVE addNone_noOther(_, _, _)
addNone_noOther(attendeeData, p, map) ==
    IF p > Len(attendeeData) THEN map
    ELSE IF \A r \in 1..Len(attendeeData[p].restrictions) :
                attendeeData[p].restrictions[r].severity = sevAirborne
    THEN addNone_noOther(attendeeData, p + 1,
            mapPush(map, sNone, [name |-> attendeeData[p].name,
                                 severity |-> sevYes, notes |-> sNone]))
    ELSE addNone_noOther(attendeeData, p + 1, map)

\* Add people with no restrictions to the "None" category
RECURSIVE addNone(_, _, _)
addNone(attendeeData, p, map) ==
    IF p > Len(attendeeData) THEN map
    ELSE IF attendeeData[p].restrictions = <<>>
    THEN addNone(attendeeData, p + 1,
            mapPush(map, sNone, [name |-> attendeeData[p].name,
                                 severity |-> sevYes, notes |-> sNone]))
    ELSE addNone(attendeeData, p + 1, map)

\* function generateSummary(attendees, meal): the value handed to setSummary
generateSummary(v, roster, attendees, meal) ==
    LET attendeeData == attendeeDataOf(v, roster, attendees)
        airborneMap == groupFrom(attendeeData, 1, 1, TRUE, <<>>)
        otherMap == groupFrom(attendeeData, 1, 1, FALSE, <<>>)
    IN  IF Len(attendeeData) = 0 THEN NullSummary
        ELSE [present |-> TRUE,
              mealName |-> meal,
              attendees |-> [k \in 1..Len(attendeeData) |-> attendeeData[k].name],
              airborne |-> airborneMap,
              other |-> IF v = "stepped"
                        THEN sortDietaryRestrictions(addNone(attendeeData, 1, otherMap))
                        ELSE otherMap,
              byPerson |-> attendeeData]

----------------------------------------------------------------------------
(* DietaryRestrictionsTool: the component *)

\* String.prototype.split(',')
RECURSIVE splitComma(_)
splitComma(s) ==
    IF \E k \in 1..Len(s) : s[k] = ","
    THEN LET k == CHOOSE n \in 1..Len(s) : s[n] = "," /\ \A x \in 1..(n - 1) : s[x] # ","
         IN  <<SubSeq(s, 1, k - 1)>> \o splitComma(SubSeq(s, k + 1, Len(s)))
    ELSE <<s>>

\* Array.prototype.join(',')
RECURSIVE joinComma(_)
joinComma(arr) ==
    IF arr = <<>> THEN <<>>
    ELSE IF Len(arr) = 1 THEN arr[1]
    ELSE arr[1] \o <<",">> \o joinComma(Tail(arr))

\* the characters encodeURIComponent escapes, of those the model uses
EscapedChars == << <<" ", "2", "0">>, <<"%", "2", "5">>,
                   <<"&", "2", "6">>, <<",", "2", "C">> >>

\* encodeURIComponent(s)
RECURSIVE encodeURIComponent(_)
encodeURIComponent(s) ==
    IF s = <<>> THEN <<>>
    ELSE (IF \E k \in 1..Len(EscapedChars) : EscapedChars[k][1] = s[1]
          THEN LET k == CHOOSE n \in 1..Len(EscapedChars) : EscapedChars[n][1] = s[1]
               IN  <<"%", EscapedChars[k][2], EscapedChars[k][3]>>
          ELSE <<s[1]>>) \o encodeURIComponent(Tail(s))

\* the hexadecimal digits of an escape are read in either letter case
toUpperHex(c) == IF c = "c" THEN "C" ELSE c

\* decodeURIComponent(s): [ok, value]; ok = FALSE when it throws URIError
\* ("%" not followed by the two digits of an escape)
RECURSIVE decodeURIComponent(_)
decodeURIComponent(s) ==
    IF s = <<>> THEN [ok |-> TRUE, value |-> <<>>]
    ELSE IF s[1] # "%"
    THEN LET rest == decodeURIComponent(Tail(s))
         IN  [ok |-> rest.ok, value |-> <<s[1]>> \o rest.value]
    ELSE IF Len(s) >= 3 /\ \E k \in 1..Len(EscapedChars) :
                              /\ EscapedChars[k][2] = s[2]
                              /\ EscapedChars[k][3] = toUpperHex(s[3])
    THEN LET k == CHOOSE n \in 1..Len(EscapedChars) :
                      /\ EscapedChars[n][2] = s[2]
                      /\ EscapedChars[n][3] = toUpperHex(s[3])
             rest == decodeURIComponent(SubSeq(s, 4, Len(s)))
         IN  [ok |-> rest.ok, value |-> <<EscapedChars[k][1]>> \o rest.value]
    ELSE [ok |-> FALSE, value |-> <<>>]

\* a.name.localeCompare(b.name) < 0, on the letters of the names
RECURSIVE localeBefore(_, _)
localeBefore(a, b) ==
    LET rank(c) == IF \E i \in 1..Len(LowerChars) : LowerChars[i] = toLowerChar(c)
                   THEN CHOOSE i \in 1..Len(LowerChars) : LowerChars[i] = toLowerChar(c)
                   ELSE 0
    IN  IF b = <<>> THEN FALSE
        ELSE IF a = <<>> THEN TRUE
        ELSE IF rank(a[1]) # rank(b[1]) THEN rank(a[1]) < rank(b[1])
        ELSE localeBefore(Tail(a), Tail(b))

RECURSIVE sortByName(_)
sortByName(ms) ==
    IF ms = <<>> THEN <<>>
    ELSE LET k == CHOOSE n \in 1..Len(ms) :
                    \A x \in 1..Len(ms) :
                        x = n \/ localeBefore(ms[n].name, ms[x].name)
                        \/ (x > n /\ ~localeBefore(ms[x].name, ms[n].name))
         IN  <<ms[k]>> \o sortByName(SubSeq(ms, 1, k - 1) \o SubSeq(ms, k + 1, Len(ms)))

\* function getFilteredMembers(): the members the dropdown offers
getFilteredMembers(v, roster, selected, input) ==
    LET search == trim(toLowerCase(input))
    IN  IF v = "stepped"
        THEN sortByName(SelectSeq(roster.members, LAMBDA m :
                /\ ~arrayIncludes(selected, toLowerCase(m.name))
                /\ (search # <<>> => includes(toLowerCase(m.name), search))))
        ELSE IF trim(input) = <<>> THEN roster.members
        ELSE SelectSeq(roster.members, LAMBDA m :
                /\ includes(toLowerCase(m.name), toLowerCase(input))
                /\ ~arrayIncludes(selected, toLowerCase(m.name)))

\* the spreadsheets whose synced roster the page is built with
UIGrids ==
    { << << <<>>, <<"A","b","b","y">>, <<"B","e","n">>, <<"C","y">> >>,
         << <<"A","t","t","e","n","d","i","n","g","?">>, <<"Y","e","s">>, <<"Y","e","s">>, <<"N","o">> >>,
         << <<"N","u","t","s">>, <<"A","i","r","b","o","r","n","e"," ","(","t","r","a","c","e",")">>, <<>>, <<"Y","e","s">> >>,
         << <<"V","e","g","a","n">>, <<>>, <<>>, <<"Y","e","s">> >>,
         << <<"D","a","i","r","y">>, <<"S","m","a","l","l"," ","a","m","o","u","n","t","s">>, <<>>, <<>> >>,
         << <<"G","l","u","t","e","n","-","F","r","e","e">>, <<"Y","e","s">>, <<>>, <<"y","e","s">> >> >>,
      << << <<"R","e","s","t","r","i","c","t","i","o","n">>, <<"A","b","b","y">>, <<"d","o","v">> >>,
         << <<"N","u","t","s">>, <<"N","o">>, <<"A","i","r","b","o","r","n","e">> >> >> }

RosterPool == {[members |-> parseSheetData(g).members,
                restrictionsList |-> parseSheetData(g).restrictionsList] : g \in UIGrids}

\* what the user types as meal name
MealPool == { <<>>, <<"T","e","a">>, <<"5","%"," ","o","f","f">> }

\* the query parameters the page is opened with
InitialLocations ==
    { [attendees |-> NoParam, meal |-> NoParam],
      [attendees |-> <<"a","b","b","y">>, meal |-> NoParam],
      [attendees |-> <<"A","b","b","y">>, meal |-> NoParam],
      [attendees |-> <<"c","y",",","a","b","b","y">>, meal |-> <<"T","e","a">>],
      [attendees |-> <<"z","e","d">>, meal |-> NoParam],
      [attendees |-> <<",">>, meal |-> NoParam],
      [attendees |-> <<"a","b","b","y">>, meal |-> <<"5","%","2","5","%","2","0","o","f","f">>],
      [attendees |-> <<"d","o","v">>, meal |-> <<"5","%">>],
      [attendees |-> NoParam, meal |-> <<"T","e","a">>] }

InitTool ==
    /\ rows = <<>> /\ pc = "parsed" /\ dietaryData = NoData /\ error = NoError
    /\ RunIdle
    /\ variant \in {"stepped", "single"}
    /\ data \in RosterPool
    /\ location \in InitialLocations
    /\ mounted = FALSE
    /\ effectError = NoError
    /\ selectedAttendees = <<>>
    /\ mealName = <<>>
    /\ summary = NullSummary
    /\ currentStep = 1
    /\ searchInput = <<>>
    /\ showDropdown = FALSE
    /\ highlightedIndex = -1
    /\ lastCall = NoCall
    /\ ExportIdle
    /\ PageIdle
    /\ SortIdle

\* the roster with the restrictions of the attendees filtered in place
rosterAfterSummary_inPlace(v, roster, attendees) ==
    [roster EXCEPT !.members =
        [k \in 1..Len(roster.members) |->
            IF isAttendee(attendees, roster.members[k])
              THEN [roster.members[k] EXCEPT
                        !.restrictions = keptRestrictions("stepped", roster.members[k])]
              ELSE roster.members[k]]]

\* the roster after generateSummary: data.members.filter(...) and
\* person.restrictions.filter(...) build new arrays, {...person, ...} a new
\* object, and the maps and the sorted array are made of new objects: the
\* function writes to nothing the roster is made of
rosterAfterSummary(v, roster, attendees) == roster

\* setSummary(generateSummary's value) together with the record of the call
callGenerateSummary(attendees, meal) ==
    /\ data' = rosterAfterSummary(variant, data, attendees)
    /\ summary' = generateSummary(variant, data, attendees, meal)
    /\ lastCall' = [called |-> TRUE, attendees |-> attendees, meal |-> meal,
                    replaced |-> summary.present]

\* useEffect(() => {...}, []): load the selection from the URL on mount
Mount ==
    /\ ~mounted
    /\ mounted' = TRUE
    /\ IF location.attendees = NoParam \/ location.attendees = <<>>
       THEN UNCHANGED <<selectedAttendees, mealName, summary, currentStep,
                        effectError, lastCall, data>>
       ELSE LET attendees == SelectSeq(splitComma(location.attendees),
                                       LAMBDA a : a # <<>>)
                hasMeal == location.meal # NoParam /\ location.meal # <<>>
                meal == IF hasMeal THEN decodeURIComponent(location.meal)
                        ELSE [ok |-> TRUE, value |-> <<>>]
            IN  /\ selectedAttendees' = attendees
                /\ IF ~meal.ok
                   THEN /\ effectError' = "URIError"
                        /\ UNCHANGED <<mealName, summary, currentStep, lastCall, data>>
                   ELSE /\ effectError' = NoError
                        /\ mealName' = IF hasMeal THEN meal.value ELSE mealName
                        /\ IF Len(attendees) > 0
                           THEN /\ callGenerateSummary(attendees, meal.value)
                                /\ currentStep' = IF variant = "stepped" THEN 2
                                                  ELSE currentStep
                           ELSE UNCHANGED <<summary, currentStep, lastCall, data>>
    /\ UNCHANGED <<syncVars, exportVars, sortVars, pageVars, variant, location, searchInput, showDropdown,
                   highlightedIndex>>

\* the selection controls are rendered (in the stepped component, in step 1)
SelectionShown == mounted /\ (variant = "stepped" => currentStep = 1)

MaxTimers == 2    \* pending timers of handleSearchBlur
MaxHistory == 3   \* entries of the session history

\* window.history.pushState({}, '', url): the entries after the current one
\* are dropped and the new one becomes the current entry
pushState(h, loc) ==
    IF ~h.tracked THEN h
    ELSE [tracked |-> TRUE,
          entries |-> Append(SubSeq(h.entries, 1, h.index), loc),
          index   |-> h.index + 1]

\* clearTimeout(id): the timer is no longer pending; no effect for the id
\* of a timer that has fired or was cleared
clearTimeout(timers, id) == SelectSeq(timers, LAMBDA t : t.id # id)

\* every timer still pending has seen the input regain the focus (or the
\* dropdown pressed) since its blur
markRefocused(timers) ==
    [k \in 1..Len(timers) |-> [timers[k] EXCEPT !.refocused = TRUE]]

\* if (blurTimeoutRef.current) clearTimeout(blurTimeoutRef.current): only
\* the stepped component keeps the id of its timer
cancelBlurTimeout(v) ==
    markRefocused(IF v = "stepped" /\ blurTimeoutRef # 0
                    THEN clearTimeout(blurTimers, blurTimeoutRef)
                    ELSE blurTimers)

\* function handleSearchFocus(): the search input receives the focus
handleSearchFocus ==
    /\ SelectionShown
    /\ focus # "input"
    /\ showDropdown' = TRUE
    /\ focus' = IF focus = "untracked" THEN focus ELSE "input"
    /\ blurTimers' = cancelBlurTimeout(variant)
    /\ UNCHANGED <<syncVars, exportVars, sortVars, history, blurTimeoutRef, variant, data, location, mounted, effectError,
                   selectedAttendees, mealName, summary, currentStep, searchInput,
                   highlightedIndex, lastCall>>

\* if (!selectedAttendees.includes(lowerName))
\*     setSelectedAttendees(prev => [...prev, lowerName]);
\* the test reads the selectedAttendees of the render the handler belongs
\* to, the update the state as it is when it is applied
selectUpdate(rendered, prev, lowerName) ==
    IF ~arrayIncludes(rendered, lowerName) THEN Append(prev, lowerName) ELSE prev

\* what handleSelectMember does besides the selection.
\* inputRef.current.focus() calls handleSearchFocus when the input does not
\* have the focus; where the focus is not followed, the single-page
\* component may be in either case.
selectMemberEffects ==
    /\ searchInput' = <<>>
    /\ IF variant = "stepped"
       THEN showDropdown' = TRUE /\ highlightedIndex' = -1
       ELSE /\ showDropdown' \in BOOLEAN
            /\ focus # "untracked" => showDropdown' = (focus = "elsewhere")
            /\ UNCHANGED highlightedIndex
    /\ focus' = IF focus = "elsewhere" THEN "input" ELSE focus
    /\ blurTimers' = IF focus = "elsewhere" THEN cancelBlurTimeout(variant)
                     ELSE blurTimers

\* the body of handleSelectMember(memberName)
selectMember(memberName) ==
    /\ selectedAttendees' = selectUpdate(selectedAttendees, selectedAttendees,
                                         toLowerCase(memberName))
    /\ selectMemberEffects

\* function handleSelectMember(memberName): a click on an entry of the open
\* dropdown.  The stepped component leaves the dropdown open; the single-page
\* one closes it and inputRef.current.focus() opens it again through onFocus
\* when the click had taken the focus from the input.
handleSelectMember ==
    /\ SelectionShown
    /\ showDropdown
    /\ \E k \in 1..Len(getFilteredMembers(variant, data, selectedAttendees, searchInput)) :
        selectMember(getFilteredMembers(variant, data, selectedAttendees, searchInput)[k].name)
    /\ UNCHANGED <<syncVars, exportVars, sortVars, history, blurTimeoutRef, variant, data, location, mounted, effectError,
                   mealName, summary, currentStep, lastCall>>

\* function handleRemoveMember(memberName): a click on the cross of a chip
handleRemoveMember ==
    /\ SelectionShown
    /\ \E k \in 1..Len(selectedAttendees) :
        selectedAttendees' = SelectSeq(selectedAttendees,
                                       LAMBDA n : n # selectedAttendees[k])
    /\ UNCHANGED <<syncVars, exportVars, sortVars, pageVars, variant, data, location, mounted, effectError,
                   mealName, summary, currentStep, searchInput, showDropdown,
                   highlightedIndex, lastCall>>

\* onInput={(e) => setMealName(e.target.value)}
handleMealInput ==
    /\ SelectionShown
    /\ \E m \in MealPool : mealName' = m
    /\ mealName' # mealName
    /\ UNCHANGED <<syncVars, exportVars, sortVars, pageVars, variant, data, location, mounted, effectError,
                   selectedAttendees, summary, currentStep, searchInput,
                   showDropdown, highlightedIndex, lastCall>>

\* function handleGenerate(): the button is disabled without a selection
handleGenerate ==
    /\ SelectionShown
    /\ Len(selectedAttendees) # 0
    /\ history.tracked => history.index < MaxHistory
    /\ callGenerateSummary(selectedAttendees, mealName)
    /\ IF variant = "stepped"
       THEN /\ currentStep' = 2
            /\ location' = [attendees |-> joinComma(selectedAttendees),
                            meal |-> IF mealName # <<>>
                                     THEN encodeURIComponent(mealName)
                                     ELSE NoParam]
            /\ history' = pushState(history, location')
       ELSE UNCHANGED <<currentStep, location, history>>
    /\ UNCHANGED <<syncVars, exportVars, sortVars, focusVars, variant, mounted, effectError,
                   selectedAttendees, mealName, searchInput, showDropdown,
                   highlightedIndex>>

\* function handleGenerateNew(): "Modify Selection" of the summary step
handleGenerateNew ==
    /\ mounted /\ variant = "stepped" /\ currentStep = 2
    /\ currentStep' = 1
    /\ summary' = NullSummary
    /\ lastCall' = NoCall
    /\ location' = [attendees |-> NoParam, meal |-> NoParam]
    /\ history.tracked => history.index < MaxHistory
    /\ history' = pushState(history, location')
    /\ UNCHANGED <<syncVars, exportVars, sortVars, focusVars, variant, data, mounted, effectError,
                   selectedAttendees, mealName, searchInput, showDropdown,
                   highlightedIndex>>

NextTool ==
    \/ Mount
    \/ handleSearchFocus
    \/ handleSelectMember
    \/ handleRemoveMember
    \/ handleMealInput
    \/ handleGenerate
    \/ handleGenerateNew

SpecTool == InitTool /\ [][NextTool]_vars

----------------------------------------------------------------------------
(* The browser's back and forward buttons *)

\* the handler taking the step only
handlePopState_keepSummary(loc) ==
    IF variant = "stepped" /\ effectError = NoError
       /\ (loc.attendees = NoParam \/ loc.attendees = <<>>)
    THEN /\ currentStep' = 1
         /\ UNCHANGED <<summary, lastCall>>
    ELSE UNCHANGED <<currentStep, summary, lastCall>>

\* const handlePopState = () => {...}: without an attendees parameter in
\* the URL the page goes to step 1 and drops the summary; the listener
\* exists only in the stepped component, and only when the mount effect
\* reached its addEventListener
handlePopState(loc) ==
    IF variant = "stepped" /\ effectError = NoError
       /\ (loc.attendees = NoParam \/ loc.attendees = <<>>)
    THEN /\ currentStep' = 1
         /\ summary' = NullSummary
         /\ lastCall' = NoCall
    ELSE UNCHANGED <<currentStep, summary, lastCall>>

\* the back button: the entry before the current one becomes current and
\* popstate is dispatched
goBack ==
    /\ mounted
    /\ history.tracked /\ history.index > 1
    /\ history' = [history EXCEPT !.index = @ - 1]
    /\ location' = history.entries[history.index - 1]
    /\ handlePopState(location')
    /\ UNCHANGED <<syncVars, exportVars, sortVars, focusVars, variant, data, mounted,
                   effectError, selectedAttendees, mealName, searchInput,
                   showDropdown, highlightedIndex>>

\* the forward button
goForward ==
    /\ mounted
    /\ history.tracked /\ history.index < Len(history.entries)
    /\ history' = [history EXCEPT !.index = @ + 1]
    /\ location' = history.entries[history.index + 1]
    /\ handlePopState(location')
    /\ UNCHANGED <<syncVars, exportVars, sortVars, focusVars, variant, data, mounted,
                   effectError, selectedAttendees, mealName, searchInput,
                   showDropdown, highlightedIndex>>

\* the URLs the page of the navigation is opened with
NavLocations ==
    { [attendees |-> NoParam, meal |-> NoParam],
      [attendees |-> <<"a","b","b","y">>, meal |-> <<"T","e","a">>],
      [attendees |-> <<"z","e","d">>, meal |-> NoParam],
      [attendees |-> <<"d","o","v">>, meal |-> <<"5","%">>] }

\* the roster of the navigation: the members Abby and dov
NavRosters == {r \in RosterPool : Len(r.members) = 2}

InitNav ==
    /\ rows = <<>> /\ pc = "parsed" /\ dietaryData = NoData /\ error = NoError
    /\ RunIdle
    /\ variant = "stepped"
    /\ data \in NavRosters
    /\ location \in NavLocations
    /\ mounted = FALSE
    /\ effectError = NoError
    /\ selectedAttendees = <<>>
    /\ mealName = <<>>
    /\ summary = NullSummary
    /\ currentStep = 1
    /\ searchInput = <<>>
    /\ showDropdown = FALSE
    /\ highlightedIndex = -1
    /\ lastCall = NoCall
    /\ ExportIdle
    /\ SortIdle
    /\ history = [tracked |-> TRUE, entries |-> <<location>>, index |-> 1]
    /\ focus = "untracked"
    /\ blurTimers = <<>>
    /\ blurTimeoutRef = 0

NextNav ==
    \/ Mount
    \/ handleSearchFocus
    \/ handleSelectMember
    \/ handleRemoveMember
    \/ handleMealInput
    \/ handleGenerate
    \/ handleGenerateNew
    \/ goBack
    \/ goForward

SpecNav == InitNav /\ [][NextNav]_vars

----------------------------------------------------------------------------
(* The autocomplete: search input, keyboard, blur timer *)

\* what the user types into the search input
SearchPool == { <<>>, <<"b">>, <<"Y">>, <<"x">> }

\* function handleSearchInput(e)
handleSearchInput ==
    /\ SelectionShown
    /\ focus = "input"
    /\ \E v \in SearchPool : v # searchInput /\ searchInput' = v
    /\ showDropdown' = TRUE
    /\ highlightedIndex' = IF variant = "stepped" THEN -1 ELSE highlightedIndex
    /\ UNCHANGED <<syncVars, exportVars, sortVars, pageVars, variant, data, location,
                   mounted, effectError, selectedAttendees, mealName, summary,
                   currentStep, lastCall>>

\* the id setTimeout returns: one no pending timer has
newTimerId ==
    CHOOSE id \in 1..MaxTimers :
        /\ \A k \in 1..Len(blurTimers) : blurTimers[k].id # id
        /\ \A smaller \in 1..(id - 1) : \E k \in 1..Len(blurTimers) : blurTimers[k].id = smaller

\* function handleSearchBlur(): the input loses the focus and the timer of
\* 200 ms is started; the stepped component keeps its id in blurTimeoutRef
handleSearchBlur ==
    /\ SelectionShown
    /\ focus = "input"
    /\ Len(blurTimers) < MaxTimers
    /\ focus' = "elsewhere"
    /\ blurTimers' = Append(blurTimers, [id |-> newTimerId, refocused |-> FALSE])
    /\ blurTimeoutRef' = IF variant = "stepped" THEN newTimerId ELSE blurTimeoutRef
    /\ UNCHANGED <<syncVars, exportVars, sortVars, history, variant, data, location,
                   mounted, effectError, selectedAttendees, mealName, summary,
                   currentStep, searchInput, showDropdown, highlightedIndex, lastCall>>

\* the callback of the timer: the oldest pending timer fires
blurTimeout ==
    /\ mounted
    /\ Len(blurTimers) > 0
    /\ blurTimers' = Tail(blurTimers)
    /\ showDropdown' = FALSE
    /\ highlightedIndex' = IF variant = "stepped" THEN -1 ELSE highlightedIndex
    /\ UNCHANGED <<syncVars, exportVars, sortVars, history, focus, blurTimeoutRef,
                   variant, data, location, mounted, effectError, selectedAttendees,
                   mealName, summary, currentStep, searchInput, lastCall>>

\* the dropdown is rendered
DropdownShown ==
    /\ SelectionShown
    /\ showDropdown
    /\ Len(getFilteredMembers(variant, data, selectedAttendees, searchInput)) > 0

\* onMouseDown of an entry of the dropdown: the stepped component clears
\* the pending timer, the single-page one has no handler
dropdownMouseDown ==
    /\ DropdownShown
    /\ blurTimers' = cancelBlurTimeout(variant)
    /\ UNCHANGED <<syncVars, exportVars, sortVars, history, focus, blurTimeoutRef,
                   variant, data, location, mounted, effectError, selectedAttendees,
                   mealName, summary, currentStep, searchInput, showDropdown,
                   highlightedIndex, lastCall>>

\* prev => prev + 1, without the end of the list
arrowDown_unbounded(prev, n) == prev + 1

\* prev => prev < filteredMembers.length - 1 ? prev + 1 : prev
arrowDown(prev, n) == IF prev < n - 1 THEN prev + 1 ELSE prev

\* prev => prev > 0 ? prev - 1 : -1
arrowUp(prev) == IF prev > 0 THEN prev - 1 ELSE -1

Keys == {"ArrowDown", "ArrowUp", "Enter", "Escape"}

\* function handleKeyDown(e) of the stepped component; filteredMembers[i]
\* of the code is filteredMembers[i + 1] here
handleKeyDown ==
    /\ SelectionShown
    /\ variant = "stepped"
    /\ focus = "input"
    /\ \E key \in Keys :
        LET filteredMembers == getFilteredMembers(variant, data, selectedAttendees, searchInput)
        IN  CASE key = "ArrowDown" ->
                   /\ showDropdown' = TRUE
                   /\ highlightedIndex' = arrowDown(highlightedIndex, Len(filteredMembers))
                   /\ UNCHANGED <<selectedAttendees, searchInput, focus, blurTimers>>
              [] key = "ArrowUp" ->
                   /\ highlightedIndex' = arrowUp(highlightedIndex)
                   /\ UNCHANGED <<showDropdown, selectedAttendees, searchInput, focus, blurTimers>>
              [] key = "Enter" ->
                   IF highlightedIndex >= 0 /\ highlightedIndex + 1 <= Len(filteredMembers)
                     THEN selectMember(filteredMembers[highlightedIndex + 1].name)
                     ELSE UNCHANGED <<showDropdown, highlightedIndex, selectedAttendees,
                                      searchInput, focus, blurTimers>>
              [] key = "Escape" ->
                   /\ showDropdown' = FALSE
                   /\ highlightedIndex' = -1
                   /\ UNCHANGED <<selectedAttendees, searchInput, focus, blurTimers>>
    /\ UNCHANGED <<syncVars, exportVars, sortVars, history, blurTimeoutRef, variant,
                   data, location, mounted, effectError, mealName, summary,
                   currentStep, lastCall>>

InitAutocomplete ==
    /\ rows = <<>> /\ pc = "parsed" /\ dietaryData = NoData /\ error = NoError
    /\ RunIdle
    /\ variant \in {"stepped", "single"}
    /\ data \in RosterPool
    /\ location = [attendees |-> NoParam, meal |-> NoParam]
    /\ mounted = TRUE
    /\ effectError = NoError
    /\ selectedAttendees = <<>>
    /\ mealName = <<>>
    /\ summary = NullSummary
    /\ currentStep = 1
    /\ searchInput = <<>>
    /\ showDropdown = FALSE
    /\ highlightedIndex = -1
    /\ lastCall = NoCall
    /\ ExportIdle
    /\ SortIdle
    /\ history = NoHistory
    /\ focus = "elsewhere"
    /\ blurTimers = <<>>
    /\ blurTimeoutRef = 0

NextAutocomplete ==
    \/ handleSearchFocus
    \/ handleSearchBlur
    \/ blurTimeout
    \/ dropdownMouseDown
    \/ handleSearchInput
    \/ handleKeyDown
    \/ handleSelectMember
    \/ handleRemoveMember

SpecAutocomplete == InitAutocomplete /\ [][NextAutocomplete]_vars

----------------------------------------------------------------------------
(* The selection: select, toggle and remove *)

\* function handleAttendeeChange(memberName): the name is taken out of the
\* selection when it is in it and appended otherwise; the test is made on
\* the state the update is applied to
handleAttendeeChange ==
    /\ SelectionShown
    /\ \E k \in 1..Len(data.members) :
        LET lowerName == toLowerCase(data.members[k].name)
        IN  selectedAttendees' =
                IF arrayIncludes(selectedAttendees, lowerName)
                  THEN SelectSeq(selectedAttendees, LAMBDA n : n # lowerName)
                  ELSE Append(selectedAttendees, lowerName)
    /\ UNCHANGED <<syncVars, exportVars, sortVars, pageVars, variant, data, location,
                   mounted, effectError, mealName, summary, currentStep, searchInput,
                   showDropdown, highlightedIndex, lastCall>>

\* two select events handled before the component renders again: both
\* calls of handleSelectMember belong to the same render, whose
\* selectedAttendees their tests read, and their updates are applied one
\* after the other
handleSelectMemberTwice ==
    /\ DropdownShown
    /\ \E k1, k2 \in 1..Len(getFilteredMembers(variant, data, selectedAttendees, searchInput)) :
        LET filteredMembers == getFilteredMembers(variant, data, selectedAttendees, searchInput)
        IN  selectedAttendees' =
                selectUpdate(selectedAttendees,
                             selectUpdate(selectedAttendees, selectedAttendees,
                                          toLowerCase(filteredMembers[k1].name)),
                             toLowerCase(filteredMembers[k2].name))
    /\ selectMemberEffects
    /\ UNCHANGED <<syncVars, exportVars, sortVars, history, blurTimeoutRef, variant,
                   data, location, mounted, effectError, mealName, summary,
                   currentStep, lastCall>>

NextSelection ==
    \/ handleSearchFocus
    \/ handleSelectMember
    \/ handleSelectMemberTwice
    \/ handleAttendeeChange
    \/ handleRemoveMember

SpecSelection == InitAutocomplete /\ [][NextSelection]_vars

----------------------------------------------------------------------------
(* formatSummaryAsText and the copy button *)

MaxFormatCalls == 2   \* formatSummaryAsText calls recorded

\* the characters of the texts that are not ASCII, each one element
WarningSign == "<warning sign>"
Bullet      == "<bullet>"

Digits == <<"0","1","2","3","4","5","6","7","8","9">>

\* `${n}` of a non-negative integer
RECURSIVE numberToString(_)
numberToString(n) ==
    IF n < 10 THEN <<Digits[n + 1]>>
    ELSE numberToString(n \div 10) \o <<Digits[(n % 10) + 1]>>

\* Array.prototype.join(', ')
RECURSIVE joinCommaSpace(_)
joinCommaSpace(arr) ==
    IF arr = <<>> THEN <<>>
    ELSE IF Len(arr) = 1 THEN arr[1]
    ELSE arr[1] \o <<","," ">> \o joinCommaSpace(Tail(arr))

\* the first lines: title and attendees
headerText(s) ==
    (IF s.mealName # <<>>
     THEN <<"D","i","e","t","a","r","y"," ","S","u","m","m","a","r","y"," ","-"," ">> \o s.mealName \o <<"\n","\n">>
     ELSE <<"D","i","e","t","a","r","y"," ","S","u","m","m","a","r","y","\n","\n">>)
    \o <<"A","t","t","e","n","d","e","e","s",":"," ">> \o numberToString(Len(s.attendees)) \o <<" ","(">>
    \o joinCommaSpace(s.attendees) \o <<")","\n","\n">>

\* faulty variant: the notes written in both components
airbornePersonLine_notes(v, p) ==
    <<" "," ","-"," ">> \o p.name
    \o (IF p.notes # <<>> THEN <<" ","(">> \o p.notes \o <<")">> ELSE <<>>)
    \o <<"\n">>

\* the line of one person of an airborne group: the stepped component
\* writes the name, the single-page one also the notes
airbornePersonLine(v, p) ==
    IF v = "stepped" THEN <<" "," ","-"," ">> \o p.name \o <<"\n">>
    ELSE <<" "," ","-"," ">> \o p.name
         \o (IF p.notes # <<>> THEN <<" ","(">> \o p.notes \o <<")">> ELSE <<>>)
         \o <<"\n">>

\* the line of the item of a group
itemLine(v, item) ==
    IF v = "stepped" THEN item \o <<"\n">> ELSE <<Bullet>> \o <<" ">> \o item \o <<"\n">>

\* if (summary.airborne.length > 0) {...}
airborneText(v, s) ==
    IF Len(s.airborne) = 0 THEN <<>>
    ELSE (IF v = "stepped"
          THEN <<WarningSign>> \o <<" "," ","A","I","R","B","O","R","N","E"," ","A","L","L","E","R","G","I","E","S"," ">> \o <<WarningSign>> \o <<"\n">>
               \o <<"=","=","=","=","=","=","=","=","=","=","=","=","=","=","=","=","=","=","=","=","=","=","=","=","=","=","=","=","=","=","=","=","=","=","=","=","=","=","=","=","=","=","\n">>
          ELSE <<"A","i","r","b","o","r","n","e"," ","A","l","l","e","r","g","i","e","s",":","\n">>)
         \o concat([g \in 1..Len(s.airborne) |->
                itemLine(v, s.airborne[g].item)
                \o concat([e \in 1..Len(s.airborne[g].people) |->
                       airbornePersonLine(v, s.airborne[g].people[e])])])
         \o <<"\n">>

\* the line of one person of a group of other
otherPersonLine(p) ==
    <<" "," ","-"," ">> \o p.name
    \o (IF p.severity # sevYes THEN <<" ","(">> \o p.severity \o <<")">> ELSE <<>>)
    \o <<"\n">>

\* if (summary.other.length > 0) {...}
otherText(v, s) ==
    IF Len(s.other) = 0 THEN <<>>
    ELSE (IF v = "stepped" THEN <<"D","i","e","t","a","r","y"," ","R","e","s","t","r","i","c","t","i","o","n","s",":","\n">>
          ELSE <<"O","t","h","e","r"," ","D","i","e","t","a","r","y"," ","R","e","s","t","r","i","c","t","i","o","n","s",":","\n">>)
         \o concat([g \in 1..Len(s.other) |->
                itemLine(v, s.other[g].item)
                \o concat([e \in 1..Len(s.other[g].people) |->
                       otherPersonLine(s.other[g].people[e])])])
         \o <<"\n">>

\* faulty variant: the severity written after every item but those of yes
restrictionLabel_plain(r) ==
    r.item \o (IF r.severity # sevYes THEN <<" ","(">> \o r.severity \o <<")">> ELSE <<>>)

\* `${r.item}${severity}` of the by-person section
restrictionLabel(r) ==
    r.item \o (IF r.severity = sevAirborne THEN <<" ","(","A","I","R","B","O","R","N","E",")">>
               ELSE IF r.severity # sevYes THEN <<" ","(">> \o r.severity \o <<")">>
               ELSE <<>>)

\* the line of one person of the by-person section
byPersonLine(v, person) ==
    LET restrictions == [r \in 1..Len(person.restrictions) |->
                            restrictionLabel(person.restrictions[r])]
        joined == joinCommaSpace(restrictions)
    IN  (IF v = "stepped" THEN <<"-"," ">> ELSE <<Bullet>> \o <<" ">>)
        \o person.name \o <<":"," ">>
        \o (IF joined # <<>> THEN joined ELSE <<"N","o","n","e">>)
        \o <<"\n">>

byPersonText(v, s) ==
    <<"R","e","s","t","r","i","c","t","i","o","n","s"," ","b","y"," ","P","e","r","s","o","n",":","\n">>
    \o concat([k \in 1..Len(s.byPerson) |-> byPersonLine(v, s.byPerson[k])])

\* function formatSummaryAsText(summary)
formatSummaryAsText(v, s) ==
    headerText(s) \o airborneText(v, s) \o otherText(v, s) \o byPersonText(v, s)

\* faulty variant: the attendees of the summary sorted in place for the text
copyToClipboard_sorting ==
    /\ summary.present
    /\ Len(formatCalls) < MaxFormatCalls
    /\ \E text \in {formatSummaryAsText(variant, summary)} :
          /\ clipboard' = text
          /\ formatCalls' = Append(formatCalls, [summary |-> summary, text |-> text])
    /\ summary' = [summary EXCEPT !.attendees =
                      [k \in 1..Len(@) |-> @[Len(@) + 1 - k]]]
    /\ copied' = TRUE
    /\ UNCHANGED <<syncVars, sortVars, downloadVars, shareVars, pageVars, variant, data, location, mounted,
                   effectError, selectedAttendees, mealName, currentStep,
                   searchInput, showDropdown, highlightedIndex, lastCall>>

\* async function copyToClipboard(): if (!summary) return; the text of the
\* summary is written to the clipboard and the button marked
copyToClipboard ==
    /\ summary.present
    /\ Len(formatCalls) < MaxFormatCalls
    /\ \E text \in {formatSummaryAsText(variant, summary)} :
          /\ clipboard' = text
          /\ formatCalls' = Append(formatCalls, [summary |-> summary, text |-> text])
    /\ copied' = TRUE
    /\ UNCHANGED <<syncVars, toolVars, sortVars, downloadVars, shareVars>>

\* setTimeout(() => setCopied(false), 2000)
copiedTimeout ==
    /\ copied
    /\ copied' = FALSE
    /\ UNCHANGED <<syncVars, toolVars, sortVars, clipboard, formatCalls, downloadVars, shareVars>>

\* without the g flag: only the first white space character is replaced
RECURSIVE replaceWhiteSpaceRuns_first(_)
replaceWhiteSpaceRuns_first(s) ==
    IF s = <<>> THEN <<>>
    ELSE IF s[1] \in WhiteSpace
           THEN <<"-">> \o Tail(s)
           ELSE <<s[1]>> \o replaceWhiteSpaceRuns_first(Tail(s))

\* str.replace(/\s+/g, '-'): every maximal run of white space becomes one
\* hyphen
RECURSIVE replaceWhiteSpaceRuns(_)
replaceWhiteSpaceRuns(s) ==
    IF s = <<>> THEN <<>>
    ELSE IF s[1] \in WhiteSpace
           THEN IF Len(s) > 1 /\ s[2] \in WhiteSpace
                  THEN replaceWhiteSpaceRuns(Tail(s))
                  ELSE <<"-">> \o replaceWhiteSpaceRuns(Tail(s))
           ELSE <<s[1]>> \o replaceWhiteSpaceRuns(Tail(s))

\* the suffix after the meal name and the name of a file without meal name
fileSuffix(v) ==
    IF v = "stepped"
      THEN <<"-","d","i","e","t","a","r","y","-","d","a","s","h","b","o","a","r","d",".","t","x","t">>
      ELSE <<"-","d","i","e","t","a","r","y",".","t","x","t">>
defaultFileName(v) ==
    IF v = "stepped"
      THEN <<"d","i","e","t","a","r","y","-","d","a","s","h","b","o","a","r","d",".","t","x","t">>
      ELSE <<"d","i","e","t","a","r","y","-","r","e","s","t","r","i","c","t","i","o","n","s",".","t","x","t">>

\* summary.mealName ? `${summary.mealName.replace(/\s+/g, '-')}<suffix>` : <default>
fileNameOf(v, s) ==
    IF s.mealName # <<>>
      THEN replaceWhiteSpaceRuns(s.mealName) \o fileSuffix(v)
      ELSE defaultFileName(v)

\* function downloadAsTextFile(): if (!summary) return; the text of the
\* summary is handed to the browser as a file and the button marked
downloadAsTextFile ==
    /\ IF summary.present /\ Len(formatCalls) < MaxFormatCalls
         THEN \E text \in {formatSummaryAsText(variant, summary)} :
                 /\ download' = [done |-> TRUE,
                                 filename |-> fileNameOf(variant, summary),
                                 text |-> text]
                 /\ formatCalls' = Append(formatCalls, [summary |-> summary, text |-> text])
                 /\ downloaded' = TRUE
         ELSE /\ ~summary.present
              /\ UNCHANGED <<download, formatCalls, downloaded>>
    /\ UNCHANGED <<syncVars, toolVars, sortVars, shareVars, copied, clipboard>>

\* setTimeout(() => setDownloaded(false), 2000)
downloadedTimeout ==
    /\ downloaded
    /\ downloaded' = FALSE
    /\ UNCHANGED <<syncVars, toolVars, sortVars, shareVars, copied, clipboard, formatCalls, download>>

----------------------------------------------------------------------------
(* generateSummary as a function of the roster and of the names it is given *)

MaxAttendees == 3   \* names in the list handed to generateSummary

SummaryRosters ==
    RosterPool \cup {[members |-> parseSheetData(RepeatedLabelGrid).members,
                      restrictionsList |-> parseSheetData(RepeatedLabelGrid).restrictionsList]}

\* the lower-cased names of the members and the name of nobody
NamePool(roster) ==
    {toLowerCase(roster.members[k].name) : k \in 1..Len(roster.members)}
        \cup { <<"z","e","d">> }

InitSummary ==
    /\ rows = <<>> /\ pc = "parsed" /\ dietaryData = NoData /\ error = NoError
    /\ RunIdle
    /\ variant \in {"stepped", "single"}
    /\ data \in SummaryRosters
    /\ location = [attendees |-> NoParam, meal |-> NoParam]
    /\ mounted = TRUE
    /\ effectError = NoError
    /\ selectedAttendees \in SeqsUpTo(NamePool(data), MaxAttendees)
    /\ mealName \in {<<>>, <<"T","e","a">>}
    /\ summary = NullSummary
    /\ currentStep = 1
    /\ searchInput = <<>>
    /\ showDropdown = FALSE
    /\ highlightedIndex = -1
    /\ lastCall = NoCall
    /\ ExportIdle
    /\ PageIdle
    /\ SortIdle

\* generateSummary(selectedAttendees, mealName)
GenerateSummary ==
    /\ ~lastCall.called
    /\ callGenerateSummary(selectedAttendees, mealName)
    /\ UNCHANGED <<syncVars, exportVars, sortVars, pageVars, variant, location, mounted,
                   effectError, selectedAttendees, mealName, currentStep,
                   searchInput, showDropdown, highlightedIndex>>

NextSummary ==
    \/ GenerateSummary
    \/ copyToClipboard
    \/ copiedTimeout

SpecSummary == InitSummary /\ [][NextSummary]_vars

----------------------------------------------------------------------------
(* The download of a summary *)

MaxDownloadNames == 1   \* names in the selection of a downloaded summary

\* meal names without, with single and with runs of white space
DownloadMeals ==
    { <<>>, <<"T","e","a">>, <<"a"," ","b">>, <<"a"," ","\t","b"," ","c">>,
      <<" ">>, <<" ","x","\n">> }

InitDownload ==
    /\ rows = <<>> /\ pc = "parsed" /\ dietaryData = NoData /\ error = NoError
    /\ RunIdle
    /\ variant \in {"stepped", "single"}
    /\ data \in SummaryRosters
    /\ location = [attendees |-> NoParam, meal |-> NoParam]
    /\ mounted = TRUE
    /\ effectError = NoError
    /\ selectedAttendees \in SeqsUpTo(NamePool(data), MaxDownloadNames)
    /\ mealName \in DownloadMeals
    /\ summary = NullSummary
    /\ currentStep = 1
    /\ searchInput = <<>>
    /\ showDropdown = FALSE
    /\ highlightedIndex = -1
    /\ lastCall = NoCall
    /\ ExportIdle
    /\ PageIdle
    /\ SortIdle

NextDownload ==
    \/ GenerateSummary
    \/ downloadAsTextFile
    \/ downloadedTimeout

SpecDownload == InitDownload /\ [][NextDownload]_vars

----------------------------------------------------------------------------
(* The shared link: shareUrl, copyUrl and the page opened with the link *)

\* URLSearchParams.prototype.toString() on one value: a space becomes "+",
\* the other characters that are not letters or digits a percent escape
RECURSIVE formSerialise(_)
formSerialise(s) ==
    IF s = <<>> THEN <<>>
    ELSE (IF s[1] = " " THEN <<"+">>
          ELSE IF \E k \in 1..Len(EscapedChars) : EscapedChars[k][1] = s[1]
          THEN LET k == CHOOSE n \in 1..Len(EscapedChars) : EscapedChars[n][1] = s[1]
               IN  <<"%", EscapedChars[k][2], EscapedChars[k][3]>>
          ELSE <<s[1]>>) \o formSerialise(Tail(s))

\* new URLSearchParams(search) on one value: "+" is a space, an escape its
\* character, anything else itself
RECURSIVE formParse(_)
formParse(s) ==
    IF s = <<>> THEN <<>>
    ELSE IF s[1] = "+" THEN <<" ">> \o formParse(Tail(s))
    ELSE IF s[1] = "%" /\ Len(s) >= 3
            /\ \E k \in 1..Len(EscapedChars) :
                  EscapedChars[k][2] = s[2] /\ EscapedChars[k][3] = toUpperHex(s[3])
    THEN LET k == CHOOSE n \in 1..Len(EscapedChars) :
                      EscapedChars[n][2] = s[2] /\ EscapedChars[n][3] = toUpperHex(s[3])
         IN  <<EscapedChars[k][1]>> \o formParse(SubSeq(s, 4, Len(s)))
    ELSE <<s[1]>> \o formParse(Tail(s))

\* the pieces of s between the occurrences of the character c
RECURSIVE splitAt(_, _)
splitAt(s, c) ==
    IF \E k \in 1..Len(s) : s[k] = c
    THEN LET k == CHOOSE n \in 1..Len(s) : s[n] = c /\ \A x \in 1..(n - 1) : s[x] # c
         IN  <<SubSeq(s, 1, k - 1)>> \o splitAt(SubSeq(s, k + 1, Len(s)), c)
    ELSE <<s>>

sAttendeesKey == <<"a","t","t","e","n","d","e","e","s">>
sMealKey      == <<"m","e","a","l">>

\* params.toString() of the parameters attendees and meal, set in this
\* order; a parameter that was not set is left out
searchOf(loc) ==
    LET a == IF loc.attendees = NoParam THEN <<>>
             ELSE << sAttendeesKey \o <<"=">> \o formSerialise(loc.attendees) >>
        m == IF loc.meal = NoParam THEN <<>>
             ELSE << sMealKey \o <<"=">> \o formSerialise(loc.meal) >>
        pairs == a \o m
    IN  IF Len(pairs) = 0 THEN <<>>
        ELSE IF Len(pairs) = 1 THEN pairs[1]
        ELSE pairs[1] \o <<"&">> \o pairs[2]

\* params.get(key) of new URLSearchParams(search): the value of the first
\* pair of that name, NoParam when there is none
getParam(search, key) ==
    LET pairs == SelectSeq(splitAt(search, "&"), LAMBDA p :
                    /\ Len(p) > Len(key)
                    /\ SubSeq(p, 1, Len(key) + 1) = key \o <<"=">>)
    IN  IF Len(pairs) = 0 THEN NoParam
        ELSE formParse(SubSeq(pairs[1], Len(key) + 2, Len(pairs[1])))

\* the query parameters of a page opened with the given search string
paramsOf(search) ==
    [attendees |-> getParam(search, sAttendeesKey), meal |-> getParam(search, sMealKey)]

\* the query string of the link: the stepped component gives away
\* window.location.href, the single-page one builds the link from the
\* selection and the meal name
linkOf(v) ==
    IF v = "stepped" THEN searchOf(location)
    ELSE searchOf([attendees |-> joinComma(selectedAttendees),
                   meal |-> IF mealName # <<>> THEN encodeURIComponent(mealName)
                            ELSE NoParam])

\* async function shareUrl() / copyUrl(): the buttons of the rendered
\* summary.  The link goes to navigator.share (stepped component, where the
\* browser has it; the user may cancel) or to the clipboard.
shareUrl ==
    /\ mounted /\ summary.present
    /\ (variant = "stepped" => currentStep = 2)
    /\ \E way \in {"share", "cancelled", "clipboard"} :
          /\ way # "clipboard" => variant = "stepped"
          /\ shareFlags' = [shared    |-> (way = "share") \/ shareFlags.shared,
                            urlCopied |-> (way = "clipboard") \/ shareFlags.urlCopied]
          /\ clipboard' = IF way = "clipboard" THEN linkOf(variant) ELSE clipboard
          /\ sharedLink' = IF way = "cancelled" THEN sharedLink
                           ELSE [done |-> TRUE, url |-> linkOf(variant), summary |-> summary]
    /\ UNCHANGED <<syncVars, toolVars, sortVars, downloadVars, copied, formatCalls>>

\* setTimeout(() => setShared(false), 2000) and
\* setTimeout(() => setUrlCopied(false), 2000)
shareTimeout ==
    /\ \E f \in {"shared", "urlCopied"} :
          /\ shareFlags[f]
          /\ shareFlags' = [shareFlags EXCEPT ![f] = FALSE]
    /\ UNCHANGED <<syncVars, toolVars, sortVars, downloadVars, copied, clipboard,
                   formatCalls, sharedLink>>

\* the link is opened: a new page with the component in its initial state
openLink ==
    /\ sharedLink.done
    /\ mounted
    /\ location' = paramsOf(sharedLink.url)
    /\ mounted' = FALSE
    /\ effectError' = NoError
    /\ selectedAttendees' = <<>>
    /\ mealName' = <<>>
    /\ summary' = NullSummary
    /\ currentStep' = 1
    /\ searchInput' = <<>>
    /\ showDropdown' = FALSE
    /\ highlightedIndex' = -1
    /\ lastCall' = NoCall
    /\ copied' = FALSE
    /\ downloaded' = FALSE
    /\ shareFlags' = NoFlags
    /\ UNCHANGED <<syncVars, sortVars, pageVars, variant, data, clipboard, formatCalls,
                   download, sharedLink>>

MaxSharedNames == 2   \* names in the selection of a shared summary

\* a spreadsheet with a comma in the name of a member
CommaGrid ==
    << << <<>>, <<"L","e","e",","," ","A","n","n">>, <<"L","e","e">> >>,
       << <<"N","u","t","s">>, <<"Y","e","s">>, <<"A","i","r","b","o","r","n","e">> >> >>

ShareRosters ==
    RosterPool \cup {[members |-> parseSheetData(CommaGrid).members,
                      restrictionsList |-> parseSheetData(CommaGrid).restrictionsList]}

\* meal names with the characters a query string gives a meaning to
ShareMeals ==
    { <<>>, <<"T","e","a">>, <<"5","%"," ","o","f","f">>, <<"a","&","b",",","c">> }

InitShare ==
    /\ rows = <<>> /\ pc = "parsed" /\ dietaryData = NoData /\ error = NoError
    /\ RunIdle
    /\ variant \in {"stepped", "single"}
    /\ data \in ShareRosters
    /\ location = [attendees |-> NoParam, meal |-> NoParam]
    /\ mounted = TRUE
    /\ effectError = NoError
    /\ selectedAttendees \in SeqsUpTo(NamePool(data) \ { <<"z","e","d">> }, MaxSharedNames)
    /\ mealName \in ShareMeals
    /\ summary = NullSummary
    /\ currentStep = 1
    /\ searchInput = <<>>
    /\ showDropdown = FALSE
    /\ highlightedIndex = -1
    /\ lastCall = NoCall
    /\ ExportIdle
    /\ PageIdle
    /\ SortIdle

NextShare ==
    \/ handleGenerate
    \/ handleGenerateNew
    \/ shareUrl
    \/ shareTimeout
    \/ openLink
    \/ Mount

SpecShare == InitShare /\ [][NextShare]_vars

----------------------------------------------------------------------------
(* sortDietaryRestrictions as a function of the entries of otherMap *)

MaxGroups == 3   \* entries of the map handed to sortDietaryRestrictions
MaxPeople == 2   \* people of one entry

\* the keys of the map: names of the priority list in several letter cases,
\* a name that contains two of them, names of the bottom list, a name that
\* only contains one of those, and names of neither list
ItemPool ==
    { <<"V","e","g","e","t","a","r","i","a","n">>,
      <<"V","e","g","a","n">>,
      <<"G","L","U","T","E","N"," ","f","r","e","e">>,
      <<"V","e","g","a","n"," ","o","r"," ","V","e","g","e","t","a","r","i","a","n">>,
      <<"N","u","t","s">>,
      <<"N","o","n","e","s","u","c","h">>,
      <<"N","o","n","e">>,
      <<"n","o","n","e">> }

PersonNames == << <<"A","b","b","y">>, <<"B","e","n">>, <<"C","y">>, <<"D","o","v">> >>

\* an entry of otherMap with n people
entryOf(item, n) ==
    [item |-> item,
     people |-> [k \in 1..n |-> [name |-> PersonNames[k], severity |-> sevYes,
                                 notes |-> <<>>]]]

\* Nuts (3), Vegan (1), None (1), Gluten-Free (2)
ExampleEntries ==
    << entryOf(<<"N","u","t","s">>, 3),
       entryOf(<<"V","e","g","a","n">>, 1),
       entryOf(<<"N","o","n","e">>, 1),
       entryOf(<<"G","l","u","t","e","n","-","F","r","e","e">>, 2) >>

\* the arrays Array.from(otherMap.entries()) can be: no key twice
EntryLists ==
    {ExampleEntries} \cup
    {l \in SeqsUpTo({entryOf(i, n) : i \in ItemPool, n \in 1..MaxPeople}, MaxGroups) :
        \A a, b \in 1..Len(l) : l[a].item = l[b].item => a = b}

InitSort ==
    /\ rows = <<>> /\ pc = "parsed" /\ dietaryData = NoData /\ error = NoError
    /\ RunIdle
    /\ ToolIdle
    /\ ExportIdle
    /\ PageIdle
    /\ otherEntries \in EntryLists
    /\ sortedOther = NotSorted

\* const sortedOther = sortDietaryRestrictions(Array.from(otherMap.entries()))
Sort ==
    /\ ~sortedOther.done
    /\ sortedOther' = [done |-> TRUE, value |-> sortDietaryRestrictions(otherEntries)]
    /\ UNCHANGED <<syncVars, toolVars, exportVars, otherEntries>>

NextSort ==
    \/ Sort

SpecSort == InitSort /\ [][NextSort]_vars

----------------------------------------------------------------------------
(* Properties of the parser.  The expected values are stated on the grid   *)
(* itself, without the operators of the parser.                            *)

Done   == pc # "parse"
Parsed == pc = "parsed"

\* the header cells after the label column
HeaderNames(grid) == [k \in 1..(IF Len(grid[1]) = 0 THEN 0 ELSE Len(grid[1]) - 1)
                        |-> grid[1][k + 1]]

IsBlank(s) == \A k \in 1..Len(s) : s[k] \in WhiteSpace

\* "no" in any letter case
IsNoWord(s) == Len(s) = 2 /\ s[1] \in {"n", "N"} /\ s[2] \in {"o", "O"}

DataRowIndexes(grid) == 2..Len(grid)

HasLabel(grid, i) == Len(grid[i]) >= 1 /\ ~IsBlank(grid[i][1])

\* the trimmed cell of member column j in row i ("" when the row is shorter)
CellOf(grid, i, j) == IF j + 1 <= Len(grid[i]) THEN trim(grid[i][j + 1]) ELSE <<>>

\* row i states a restriction for member column j
Qualifies(grid, i, j) ==
    /\ HasLabel(grid, i)
    /\ CellOf(grid, i, j) # <<>>
    /\ ~IsNoWord(CellOf(grid, i, j))

QualRows(grid, j) == {i \in DataRowIndexes(grid) : Qualifies(grid, i, j)}

\* position of row i among the rows that state a restriction for column j
RankOf(grid, j, i) == Cardinality({k \in QualRows(grid, j) : k <= i})

MemberColumns == 1..Len(dietaryData.members)

RestrictionOf(i, j) == dietaryData.members[j].restrictions[RankOf(rows, j, i)]

\* C1: a grid of fewer than 2 rows makes parseSheetData fail with
\* INSUFFICIENT_DATA and no roster; a grid of at least 2 rows gives a roster
\* and no error.
C1_InsufficientData ==
    Done => /\ Len(rows) < 2 => /\ pc = "failed"
                                /\ error = "INSUFFICIENT_DATA"
                                /\ dietaryData = NoData
            /\ Len(rows) >= 2 => /\ pc = "parsed"
                                 /\ error = NoError

C1_Witness ==
    /\ pc = "failed" /\ Len(rows) = 1 /\ Len(rows[1]) = 3
    /\ error = "INSUFFICIENT_DATA"

ExampleGrid ==
    << << <<>>, <<"A">>, <<"B">> >>,
       << <<"N","u","t","s">>, <<"N","o">>, <<"A","i","r","b","o","r","n","e"," ","(","t","r","a","c","e",")">> >> >>

\* C2: the restrictions of member j are, in row order, one restriction per
\* row with a non-blank label whose trimmed cell in column j is non-empty and
\* not "no" in any letter case, its item that row's trimmed label; the
\* example grid gives A nothing and B {Nuts, airborne, trace}.
C2_RestrictionsPerMember ==
    Parsed =>
        /\ \A j \in MemberColumns :
            /\ Len(dietaryData.members[j].restrictions) = Cardinality(QualRows(rows, j))
            /\ \A i \in QualRows(rows, j) :
                  RestrictionOf(i, j).item = trim(rows[i][1])
        /\ rows = ExampleGrid =>
              dietaryData.members =
                << [name |-> <<"A">>, restrictions |-> <<>>],
                   [name |-> <<"B">>, restrictions |->
                       << [item |-> <<"N","u","t","s">>, severity |-> <<"a","i","r","b","o","r","n","e">>, notes |-> <<"t","r","a","c","e">>] >>] >>

\* two rows with different labels both stating a restriction for member 1
C2_Witness ==
    /\ Parsed /\ Len(rows) = 3
    /\ Len(dietaryData.members) = 2
    /\ QualRows(rows, 1) = {2, 3}
    /\ QualRows(rows, 2) = {3}
    /\ trim(rows[2][1]) # trim(rows[3][1])

HasKeyword(c) ==
    \/ includes(toLowerCase(c), <<"a","i","r","b","o","r","n","e">>)
    \/ includes(toLowerCase(c), <<"s","m","a","l","l"," ","a","m","o","u","n","t">>)

\* C3: a trimmed cell that is empty or "no" in any letter case records no
\* restriction; every other cell records one, and one that names neither
\* severity keyword (such as "Not sure") has severity yes and the trimmed
\* value as its notes.
C3_NoMeansAbsent ==
    Parsed =>
        \A j \in MemberColumns :
            /\ Len(dietaryData.members[j].restrictions) =
                  Cardinality({i \in DataRowIndexes(rows) :
                      /\ HasLabel(rows, i)
                      /\ ~(CellOf(rows, i, j) = <<>> \/ IsNoWord(CellOf(rows, i, j)))})
            /\ \A i \in QualRows(rows, j) :
                  ~HasKeyword(CellOf(rows, i, j)) =>
                      /\ RestrictionOf(i, j).severity = <<"y","e","s">>
                      /\ RestrictionOf(i, j).notes = CellOf(rows, i, j)

\* "nO" is absent, "Not sure" is a restriction of severity yes
C3_WitnessNo ==
    /\ Parsed /\ Len(rows) = 2 /\ Len(rows[2]) = 2
    /\ trim(rows[2][2]) = <<"n","O">>
    /\ dietaryData.members[1].restrictions = <<>>

C3_WitnessNotSure ==
    /\ Parsed /\ Len(rows) = 2 /\ Len(rows[2]) = 2
    /\ rows[2][2] = <<"N","o","t"," ","s","u","r","e">>
    /\ Len(dietaryData.members[1].restrictions) = 1

C3_Witness ==
    \/ C3_WitnessNo
    \/ C3_WitnessNotSure

IsSmallAmountCell(c) ==
    /\ includes(toLowerCase(c), <<"s","m","a","l","l"," ","a","m","o","u","n","t">>)
    /\ ~includes(toLowerCase(c), <<"a","i","r","b","o","r","n","e">>)

\* C4 as stated: a cell naming "small amount" but not "airborne" has the
\* severity small_amounts and the raw cell value as notes.
C4_SmallAmountsAsStated ==
    Parsed =>
        \A j \in MemberColumns : \A i \in QualRows(rows, j) :
            IsSmallAmountCell(CellOf(rows, i, j)) =>
                /\ RestrictionOf(i, j).severity = <<"s","m","a","l","l","_","a","m","o","u","n","t","s">>
                /\ RestrictionOf(i, j).notes = CellOf(rows, i, j)

\* C4 as amended: the severity is the string "small amounts" (with a space),
\* the notes are the raw, not lower-cased, trimmed cell value; "Small Amount ok"
\* under the label Dairy gives {Dairy, small amounts, Small Amount ok}.
C4_SmallAmounts ==
    Parsed =>
        /\ \A j \in MemberColumns : \A i \in QualRows(rows, j) :
              IsSmallAmountCell(CellOf(rows, i, j)) =>
                  /\ RestrictionOf(i, j).severity = <<"s","m","a","l","l"," ","a","m","o","u","n","t","s">>
                  /\ RestrictionOf(i, j).notes = CellOf(rows, i, j)
        /\ (Len(rows) = 2 /\ rows[2] = << <<"D","a","i","r","y">>, <<"S","m","a","l","l"," ","A","m","o","u","n","t"," ","o","k">> >> /\ Len(rows[1]) = 2) =>
              dietaryData.members[1].restrictions =
                  << [item |-> <<"D","a","i","r","y">>, severity |-> <<"s","m","a","l","l"," ","a","m","o","u","n","t","s">>, notes |-> <<"S","m","a","l","l"," ","A","m","o","u","n","t"," ","o","k">>] >>

C4_Witness ==
    /\ Parsed /\ Len(rows) = 2 /\ Len(rows[1]) = 2
    /\ rows[2] = << <<"D","a","i","r","y">>, <<"S","m","a","l","l"," ","A","m","o","u","n","t"," ","o","k">> >>
    /\ Len(dietaryData.members[1].restrictions) = 1

\* the content of the first parenthesized substring: from the leftmost "("
\* that a ")" follows, up to the nearest ")"; "" when there is none
FirstParenContent(c) ==
    LET opens == {i \in 1..Len(c) : c[i] = "(" /\ \E k \in (i + 1)..Len(c) : c[k] = ")"}
    IN  IF opens = {} THEN <<>>
        ELSE LET i == CHOOSE o \in opens : \A k \in opens : o <= k
                 j == CHOOSE k \in (i + 1)..Len(c) :
                         c[k] = ")" /\ \A n \in (i + 1)..(k - 1) : c[n] # ")"
             IN  SubSeq(c, i + 1, j - 1)

\* C5: a cell naming "airborne" (also with "small amount") has the severity
\* airborne and, as notes, the content of the first parenthesized substring
\* of the cell, "" when there is none; the notes are never the whole cell.
C5_AirborneNotes ==
    Parsed =>
        \A j \in MemberColumns : \A i \in QualRows(rows, j) :
            includes(toLowerCase(CellOf(rows, i, j)), <<"a","i","r","b","o","r","n","e">>) =>
                /\ RestrictionOf(i, j).severity = <<"a","i","r","b","o","r","n","e">>
                /\ RestrictionOf(i, j).notes = FirstParenContent(CellOf(rows, i, j))
                /\ RestrictionOf(i, j).notes # CellOf(rows, i, j)

\* C6: every item of a member's restrictions is in restrictionsList; there
\* is one member per header cell after the label column, named by the
\* trimmed header cell, in header order.
C6_RosterInvariant ==
    Parsed =>
        /\ \A j \in MemberColumns :
              \A k \in 1..Len(dietaryData.members[j].restrictions) :
                  \E n \in 1..Len(dietaryData.restrictionsList) :
                      dietaryData.restrictionsList[n] =
                          dietaryData.members[j].restrictions[k].item
        /\ Len(dietaryData.members) = Len(HeaderNames(rows))
        /\ \A j \in MemberColumns :
              dietaryData.members[j].name = trim(HeaderNames(rows)[j])

C6_Witness ==
    /\ Parsed
    /\ rows[1] = << <<>>, <<" ","A"," ">> >>
    /\ dietaryData.members[1].name = <<"A">>
    /\ Len(dietaryData.members[1].restrictions) = 2

IsBlankRow(row) == Len(row) = 0 \/ IsBlank(row[1])

RemoveBlankRows(grid) ==
    <<grid[1]>> \o SelectSeq(Tail(grid), LAMBDA r : ~IsBlankRow(r))

Roster(r) == [members |-> r.members, restrictionsList |-> r.restrictionsList]

\* C7: a data row without a label (missing, empty or white space only) is
\* skipped without an error: the roster is the one of the grid without these
\* rows, whatever their other cells hold.
C7_BlankRowsSkipped ==
    (Done /\ Len(rows) >= 2) =>
        /\ Parsed
        /\ IF Len(RemoveBlankRows(rows)) = 1
           THEN /\ dietaryData.restrictionsList = <<>>
                /\ \A j \in MemberColumns : dietaryData.members[j].restrictions = <<>>
           ELSE dietaryData = Roster(parseSheetData(RemoveBlankRows(rows)))

\* a blank-label row holding a restriction cell, followed by a labelled row
C7_Witness ==
    /\ Parsed /\ Len(rows) = 3
    /\ Len(rows[2]) = 2 /\ IsBlank(rows[2][1]) /\ rows[2][1] # <<>>
    /\ rows[2][2] = <<"A","i","r","b","o","r","n","e"," ","(","t","r","a","c","e",")">>
    /\ Len(dietaryData.members) = 1
    /\ Len(dietaryData.members[1].restrictions) = 1
    /\ Len(dietaryData.restrictionsList) = 1

\* the rows that hold the first occurrence of their trimmed label
FirstLabelRows(grid) ==
    {i \in DataRowIndexes(grid) :
        /\ HasLabel(grid, i)
        /\ \A k \in 2..(i - 1) :
              ~(HasLabel(grid, k) /\ trim(grid[k][1]) = trim(grid[i][1]))}

\* C8: restrictionsList holds no label twice and lists the distinct
\* non-blank trimmed labels of the data rows in the order of their first
\* occurrence, also those of rows without any restriction.
C8_RestrictionsList ==
    Parsed =>
        LET list == dietaryData.restrictionsList
        IN  /\ \A a, b \in 1..Len(list) : list[a] = list[b] => a = b
            /\ Len(list) = Cardinality(FirstLabelRows(rows))
            /\ \A i \in FirstLabelRows(rows) :
                  list[Cardinality({k \in FirstLabelRows(rows) : k <= i})] =
                      trim(rows[i][1])

\* the same label twice (once with spaces around it), no restriction at all
C8_Witness ==
    /\ Parsed /\ Len(rows) = 3
    /\ HasLabel(rows, 2) /\ HasLabel(rows, 3)
    /\ rows[2][1] # rows[3][1]
    /\ dietaryData.restrictionsList = << trim(rows[2][1]) >>
    /\ \A j \in MemberColumns : dietaryData.members[j].restrictions = <<>>

MinOf(a, b) == IF a <= b THEN a ELSE b

\* every data row cut to the width of the header row
TruncateRows(grid) ==
    [i \in 1..Len(grid) |->
        IF i = 1 THEN grid[1]
        ELSE SubSeq(grid[i], 1, MinOf(Len(grid[i]), Len(HeaderNames(grid)) + 1))]

\* every labelled data row filled with empty cells to the width of the header
PadRows(grid) ==
    [i \in 1..Len(grid) |->
        IF i = 1 \/ Len(grid[i]) = 0 THEN grid[i]
        ELSE [k \in 1..(IF Len(grid[i]) > Len(HeaderNames(grid)) + 1
                        THEN Len(grid[i]) ELSE Len(HeaderNames(grid)) + 1) |->
                 IF k <= Len(grid[i]) THEN grid[i][k] ELSE <<>>]]

\* C9: the cells beyond the header are ignored and no member outside the
\* roster is accessed; a row shorter than the header records nothing for the
\* columns it lacks.
C9_ColumnsBounded ==
    Done =>
        /\ error # "TypeError"
        /\ Parsed =>
              /\ dietaryData = Roster(parseSheetData(TruncateRows(rows)))
              /\ dietaryData = Roster(parseSheetData(PadRows(rows)))

\* one member; a row with a restriction cell beyond the header, and a row
\* of the label alone
C9_Witness ==
    /\ Parsed /\ Len(rows) = 3 /\ Len(rows[1]) = 2
    /\ Len(rows[2]) = 3 /\ HasLabel(rows, 2) /\ rows[2][3] = <<"A","i","r","b","o","r","n","e"," ","(","t","r","a","c","e",")">>
    /\ Len(rows[3]) = 1 /\ HasLabel(rows, 3)
    /\ Len(dietaryData.restrictionsList) = 2

\* the severity the keywords of a cell value stand for
SeverityOfCell(c) ==
    IF includes(toLowerCase(c), <<"a","i","r","b","o","r","n","e">>)
    THEN <<"a","i","r","b","o","r","n","e">>
    ELSE IF includes(toLowerCase(c), <<"s","m","a","l","l"," ","a","m","o","u","n","t">>)
    THEN <<"s","m","a","l","l"," ","a","m","o","u","n","t","s">>
    ELSE <<"y","e","s">>

\* the rows of the label of row i that state a restriction for column j
SameLabelRows(i, j) ==
    {k \in QualRows(rows, j) : trim(rows[k][1]) = trim(rows[i][1])}

\* C26: a member with a restriction cell in k rows of one label has k
\* restrictions of that item, each with the severity of its own cell, and
\* restrictionsList holds the label once.
C26_RowsIndependent ==
    Parsed =>
        \A j \in MemberColumns : \A i \in DataRowIndexes(rows) :
            HasLabel(rows, i) =>
                /\ Cardinality({r \in 1..Len(dietaryData.members[j].restrictions) :
                        dietaryData.members[j].restrictions[r].item = trim(rows[i][1])})
                      = Cardinality(SameLabelRows(i, j))
                /\ \A k \in SameLabelRows(i, j) :
                      /\ RestrictionOf(k, j).item = trim(rows[i][1])
                      /\ RestrictionOf(k, j).severity = SeverityOfCell(CellOf(rows, k, j))
                /\ Cardinality({n \in 1..Len(dietaryData.restrictionsList) :
                        dietaryData.restrictionsList[n] = trim(rows[i][1])}) = 1

\* the label Nuts in two rows: each member has two restrictions of the item
\* Nuts, of different severities
C26_Witness ==
    /\ Parsed /\ rows = RepeatedLabelGrid
    /\ dietaryData.restrictionsList = << <<"N","u","t","s">> >>
    /\ \A j \in 1..2 :
          /\ Len(dietaryData.members[j].restrictions) = 2
          /\ dietaryData.members[j].restrictions[1].item = <<"N","u","t","s">>
          /\ dietaryData.members[j].restrictions[2].item = <<"N","u","t","s">>
          /\ dietaryData.members[j].restrictions[1].severity #
                dietaryData.members[j].restrictions[2].severity

----------------------------------------------------------------------------
(* Properties of the summary generation *)

\* some roster member's lower-cased name is among the names
MatchesAny(names) ==
    \E k \in 1..Len(data.members) : \E n \in 1..Len(names) :
        names[n] = toLowerCase(data.members[k].name)

\* C10: after a generateSummary call the summary is null when no member's
\* lower-cased name is among the requested names, also when the call
\* replaced a non-null summary, and non-null when some member matches.
C10_NoMatchNoSummary ==
    lastCall.called => (summary.present <=> MatchesAny(lastCall.attendees))

\* a call with names that match nobody replaced a non-null summary by null
C10_Witness ==
    /\ lastCall.called /\ lastCall.replaced
    /\ lastCall.attendees # <<>>
    /\ ~MatchesAny(lastCall.attendees)
    /\ summary = NullSummary

C10_WitnessMatch ==
    /\ lastCall.called /\ MatchesAny(lastCall.attendees) /\ summary.present

\* the names of the attendees query parameter
UrlNames == IF location.attendees = NoParam THEN <<>>
            ELSE SelectSeq(splitComma(location.attendees), LAMBDA a : a # <<>>)

\* member k is named, in some letter case, by one of the names
NamedAnyCase(names, k) ==
    \E n \in 1..Len(names) : toLowerCase(names[n]) = toLowerCase(data.members[k].name)

\* C11: a member whom the attendees query parameter names in any letter
\* case is among the attendees of the summary generated from it.
C11_UrlNamesAnyCase ==
    (lastCall.called /\ UrlNames # <<>> /\ lastCall.attendees = UrlNames) =>
        \A k \in 1..Len(data.members) :
            NamedAnyCase(UrlNames, k) =>
                /\ summary.present
                /\ \E n \in 1..Len(summary.attendees) :
                      summary.attendees[n] = data.members[k].name

\* the page opened with attendees=Abby has generated no summary for Abby
C11_UpperCaseLost ==
    /\ lastCall.called /\ UrlNames = << <<"A","b","b","y">> >>
    /\ lastCall.attendees = UrlNames
    /\ NamedAnyCase(UrlNames, 1)
    /\ summary = NullSummary

\* the names of the list, each once, in an order that depends on nothing
\* but the set of the names
Canonical(names) ==
    LET S == {names[k] : k \in 1..Len(names)}
    IN  CHOOSE c \in [1..Cardinality(S) -> S] : {c[k] : k \in 1..Cardinality(S)} = S

\* position in the roster of the member of that name
RosterIndex(name) == CHOOSE k \in 1..Len(data.members) : data.members[k].name = name

\* the records of the list name members in the order of the roster
InRosterOrder(list) ==
    \A a, b \in 1..Len(list) :
        a < b => RosterIndex(list[a].name) < RosterIndex(list[b].name)

\* C12: the summary of a generateSummary call is the one of the list that
\* holds the same names once each in a fixed order, so that all lists of the
\* same names (in any order, with names repeated) have one summary; its
\* attendees, the people of every airborne and other group and byPerson
\* follow the order of the roster.
C12_SelectionOrderIrrelevant ==
    (lastCall.called /\ summary.present) =>
        /\ generateSummary(variant, data, Canonical(lastCall.attendees), lastCall.meal)
              = summary
        /\ \A a, b \in 1..Len(summary.attendees) :
              a < b => RosterIndex(summary.attendees[a]) < RosterIndex(summary.attendees[b])
        /\ \A g \in 1..Len(summary.airborne) : InRosterOrder(summary.airborne[g].people)
        /\ \A g \in 1..Len(summary.other) : InRosterOrder(summary.other[g].people)
        /\ InRosterOrder(summary.byPerson)

\* Cy was added before Abby; the summary lists Abby before Cy, also in the
\* group of an item both have
C12_Witness ==
    /\ lastCall.called
    /\ lastCall.attendees = << <<"c","y">>, <<"a","b","b","y">>, <<"c","y">> >>
    /\ Canonical(lastCall.attendees) # lastCall.attendees
    /\ summary.present
    /\ summary.attendees = << <<"A","b","b","y">>, <<"C","y">> >>
    /\ \E g \in 1..Len(summary.other) : Len(summary.other[g].people) = 2

\* member k of the roster is named by the list handed to generateSummary
Selected(k) ==
    \E n \in 1..Len(lastCall.attendees) :
        lastCall.attendees[n] = toLowerCase(data.members[k].name)

\* the restrictions of member k that the summary keeps: all of them, but in
\* the stepped component not those whose item names "attending"
Kept(k) ==
    {r \in 1..Len(data.members[k].restrictions) :
        variant = "stepped" =>
            ~includes(toLowerCase(data.members[k].restrictions[r].item),
                      <<"a","t","t","e","n","d","i","n","g">>)}

KeptOf(k, item, airborne) ==
    {r \in Kept(k) :
        /\ data.members[k].restrictions[r].item = item
        /\ (data.members[k].restrictions[r].severity = <<"a","i","r","b","o","r","n","e">>)
              = airborne}

\* the entries of the group of the item that name the person
EntriesOf(map, item, name) ==
    UNION {{<<g, e>> : e \in {x \in 1..Len(map[g].people) : map[g].people[x].name = name}} :
           g \in {y \in 1..Len(map) : map[y].item = item}}

RosterItems ==
    UNION {{data.members[k].restrictions[r].item :
                r \in 1..Len(data.members[k].restrictions)} :
           k \in 1..Len(data.members)}

DistinctKeys(map) == \A a, b \in 1..Len(map) : map[a].item = map[b].item => a = b

\* C13: every kept restriction of every selected member has exactly one
\* entry, under its item, in airborne when its severity is airborne and in
\* other otherwise; no entry of other has the severity airborne, every entry
\* of airborne comes from an airborne restriction, and nobody who was not
\* selected has an entry.
C13_SeverityPartition ==
    (lastCall.called /\ summary.present) =>
        /\ DistinctKeys(summary.airborne) /\ DistinctKeys(summary.other)
        /\ \A k \in 1..Len(data.members) : \A item \in RosterItems :
              /\ Cardinality(EntriesOf(summary.airborne, item, data.members[k].name)) =
                    IF Selected(k) THEN Cardinality(KeptOf(k, item, TRUE)) ELSE 0
              /\ Cardinality(EntriesOf(summary.other, item, data.members[k].name)) =
                    IF Selected(k) THEN Cardinality(KeptOf(k, item, FALSE)) ELSE 0
        /\ \A g \in 1..Len(summary.airborne) :
              /\ summary.airborne[g].item \in RosterItems
              /\ summary.airborne[g].people # <<>>
              /\ \A e \in 1..Len(summary.airborne[g].people) :
                    \E k \in 1..Len(data.members) : \E r \in KeptOf(k, summary.airborne[g].item, TRUE) :
                        /\ Selected(k)
                        /\ summary.airborne[g].people[e] =
                              [name |-> data.members[k].name,
                               notes |-> data.members[k].restrictions[r].notes]
        /\ \A g \in 1..Len(summary.other) :
              /\ summary.other[g].people # <<>>
              /\ \A e \in 1..Len(summary.other[g].people) :
                    /\ summary.other[g].people[e].severity # <<"a","i","r","b","o","r","n","e">>
                    /\ \E k \in 1..Len(data.members) :
                          /\ Selected(k)
                          /\ summary.other[g].people[e].name = data.members[k].name
                          /\ summary.other[g].item \in RosterItems =>
                                \E r \in KeptOf(k, summary.other[g].item, FALSE) :
                                    /\ summary.other[g].people[e].severity =
                                          data.members[k].restrictions[r].severity
                                    /\ summary.other[g].people[e].notes =
                                          data.members[k].restrictions[r].notes

\* both members have the item once as airborne and once otherwise
C13_Witness ==
    /\ lastCall.called /\ summary.present
    /\ Len(summary.byPerson) = 2
    /\ \E g \in 1..Len(summary.airborne) : \E h \in 1..Len(summary.other) :
          /\ summary.airborne[g].item = summary.other[h].item
          /\ Len(summary.airborne[g].people) = 2
          /\ Len(summary.other[h].people) = 2

\* the person has an entry of severity yes in the group "None" of other
ListedUnderNone(name) ==
    \E g \in 1..Len(summary.other) :
        /\ summary.other[g].item = <<"N","o","n","e">>
        /\ \E e \in 1..Len(summary.other[g].people) :
              /\ summary.other[g].people[e].name = name
              /\ summary.other[g].people[e].severity = <<"y","e","s">>

C14_WitnessAirborneOnly ==
    /\ lastCall.called /\ summary.present /\ variant = "stepped"
    /\ Len(summary.byPerson) = 2
    /\ summary.byPerson[1].restrictions = <<>>
    /\ Len(data.members[1].restrictions) = 0
    /\ Len(summary.airborne) = 1
    /\ Len(summary.byPerson[2].restrictions) = 1
    /\ ListedUnderNone(summary.byPerson[1].name)
    /\ ~ListedUnderNone(summary.byPerson[2].name)

C14_WitnessAttendingOnly ==
    /\ lastCall.called /\ summary.present /\ variant = "stepped"
    /\ \E k \in 1..Len(data.members) :
          /\ Selected(k) /\ Kept(k) = {}
          /\ Len(data.members[k].restrictions) = 1
          /\ ListedUnderNone(data.members[k].name)

----------------------------------------------------------------------------
(* Properties of the sorting *)

\* the name, lower-cased, contains the word
Names(item, word) == includes(toLowerCase(item), word)

IsPriorityItem(item) ==
    \/ Names(item, <<"v","e","g","e","t","a","r","i","a","n">>)
    \/ Names(item, <<"v","e","g","a","n">>)
    \/ Names(item, <<"g","l","u","t","e","n">>)

IsBottomItem(item) == toLowerCase(item) = <<"n","o","n","e">>

\* 0 = priority tier, 1 = middle tier, 2 = bottom tier
TierOf(item) == IF IsPriorityItem(item) THEN 0 ELSE IF IsBottomItem(item) THEN 2 ELSE 1

\* the sorted array holds the entries of the map, each once
SortedIsPermutation ==
    /\ Len(sortedOther.value) = Len(otherEntries)
    /\ \A a \in 1..Len(otherEntries) :
          \E b \in 1..Len(sortedOther.value) : sortedOther.value[b] = otherEntries[a]

\* C15: the sorted array holds the entries given; every priority-tier item
\* precedes every middle-tier item and every middle-tier item every
\* bottom-tier item; Nuts(3), Vegan(1), None(1), Gluten-Free(2) is ordered
\* Vegan, Gluten-Free, Nuts, None.
C15_TierOrder ==
    sortedOther.done =>
        /\ SortedIsPermutation
        /\ \A a, b \in 1..Len(sortedOther.value) :
              a < b => TierOf(sortedOther.value[a].item) <= TierOf(sortedOther.value[b].item)
        /\ otherEntries = ExampleEntries =>
              [k \in 1..4 |-> sortedOther.value[k].item] =
                  << <<"V","e","g","a","n">>,
                     <<"G","l","u","t","e","n","-","F","r","e","e">>,
                     <<"N","u","t","s">>,
                     <<"N","o","n","e">> >>

\* a bottom item given first, a priority item given last, a middle item of
\* more people than the priority item between them
C15_Witness ==
    /\ sortedOther.done /\ Len(otherEntries) = 3
    /\ TierOf(otherEntries[1].item) = 2
    /\ TierOf(otherEntries[2].item) = 1
    /\ TierOf(otherEntries[3].item) = 0
    /\ Len(otherEntries[2].people) > Len(otherEntries[3].people)
    /\ sortedOther.value = <<otherEntries[3], otherEntries[2], otherEntries[1]>>

PriorityWords == << <<"v","e","g","e","t","a","r","i","a","n">>,
                    <<"v","e","g","a","n">>,
                    <<"g","l","u","t","e","n">> >>

\* the priority-list entries the name equals or contains
EntriesNamed(item) == {k \in 1..Len(PriorityWords) : Names(item, PriorityWords[k])}

\* the lowest index of a priority-list entry the name equals or contains
LowestPriorityIndex(item) ==
    CHOOSE k \in EntriesNamed(item) : \A n \in EntriesNamed(item) : k <= n

\* C16: the priority-tier items are ordered by the index of the priority-list
\* entry their name equals or contains, the lowest one for a name that
\* contains several, whatever their numbers of people.
C16_PriorityByIndex ==
    sortedOther.done =>
        \A a, b \in 1..Len(sortedOther.value) :
            (/\ a < b
             /\ IsPriorityItem(sortedOther.value[a].item)
             /\ IsPriorityItem(sortedOther.value[b].item)) =>
                LowestPriorityIndex(sortedOther.value[a].item) <=
                    LowestPriorityIndex(sortedOther.value[b].item)

\* the same for the lists in which no name contains several entries
C16_SingleEntryNames ==
    (sortedOther.done /\ \A g \in 1..Len(otherEntries) :
                            Cardinality(EntriesNamed(otherEntries[g].item)) <= 1) =>
        \A a, b \in 1..Len(sortedOther.value) :
            (/\ a < b
             /\ IsPriorityItem(sortedOther.value[a].item)
             /\ IsPriorityItem(sortedOther.value[b].item)) =>
                LowestPriorityIndex(sortedOther.value[a].item) <=
                    LowestPriorityIndex(sortedOther.value[b].item)

MiddleItem(g) == TierOf(sortedOther.value[g].item) = 1

\* C17: among the items of neither list no item of fewer people precedes an
\* item of more people.
C17_MiddleByCount ==
    sortedOther.done =>
        /\ SortedIsPermutation
        /\ \A a, b \in 1..Len(sortedOther.value) :
              (a < b /\ MiddleItem(a) /\ MiddleItem(b)) =>
                  Len(sortedOther.value[a].people) >= Len(sortedOther.value[b].people)

\* a bottom item and two middle items given, the smaller one first
C17_Witness ==
    /\ sortedOther.done /\ Len(otherEntries) = 3
    /\ TierOf(otherEntries[1].item) = 2
    /\ Len(otherEntries[2].people) < Len(otherEntries[3].people)
    /\ MiddleItem(1) /\ MiddleItem(2)
    /\ sortedOther.value = <<otherEntries[3], otherEntries[2], otherEntries[1]>>

----------------------------------------------------------------------------
(* Properties of the text *)

\* two formatSummaryAsText calls on equal summaries returned equal texts
SameSummarySameText ==
    \A i, j \in 1..Len(formatCalls) :
        formatCalls[i].summary = formatCalls[j].summary =>
            formatCalls[i].text = formatCalls[j].text

\* a step that calls formatSummaryAsText leaves the summary, which is the
\* one the call was given, and the rest of the component state as they were
FormatChangesNothing ==
    formatCalls' # formatCalls =>
        /\ summary' = summary
        /\ formatCalls'[Len(formatCalls')].summary = summary
        /\ toolVars' = toolVars

FirstBulletsAre(text, block) ==
    \E i \in 2..(Len(text) - Len(block) + 1) :
        /\ SubSeq(text, i, i + Len(block) - 1) = block
        /\ text[i - 1] = "\n"
        /\ ~includes(SubSeq(text, 1, i - 1), <<" "," ","-"," ">>)

\* what precedes the item on its line
ItemPrefix == IF variant = "single" THEN <<"<bullet>", " ">> ELSE <<>>

\* the lines of the airborne groups of the summary: the item, then one
\* "  - name" line per person, with " (notes)" behind the name when asked
\* for and the notes are not empty; then an empty line
AirborneLines(withNotes) ==
    concat([g \in 1..Len(summary.airborne) |->
        ItemPrefix \o summary.airborne[g].item \o <<"\n">>
        \o concat([e \in 1..Len(summary.airborne[g].people) |->
              <<" "," ","-"," ">> \o summary.airborne[g].people[e].name
              \o (IF withNotes /\ summary.airborne[g].people[e].notes # <<>>
                  THEN <<" ","(">> \o summary.airborne[g].people[e].notes \o <<")">>
                  ELSE <<>>)
              \o <<"\n">>])])
    \o <<"\n">>

HasAirborneNotes ==
    \E g \in 1..Len(summary.airborne) : \E e \in 1..Len(summary.airborne[g].people) :
        summary.airborne[g].people[e].notes # <<>>

\* C19 as stated: in the text of either component every airborne item is
\* followed by one "  - " line per person, the notes in parentheses behind
\* the name when they are not empty.
C19_AirborneNotesAsStated ==
    (clipboard # NoText /\ Len(summary.airborne) > 0) =>
        FirstBulletsAre(clipboard, AirborneLines(TRUE))

\* C19 as amended: every airborne item is followed by one "  - " line per
\* person; the single-page component writes non-empty notes in parentheses
\* behind the name, the stepped component writes the name alone.
C19_AirborneSection ==
    (clipboard # NoText /\ Len(summary.airborne) > 0) =>
        FirstBulletsAre(clipboard, AirborneLines(variant = "single"))

\* a text of the stepped component for a person with airborne notes, which
\* it does not hold
C19_Witness ==
    /\ clipboard # NoText /\ variant = "stepped"
    /\ HasAirborneNotes
    /\ Len(summary.airborne[1].people) = 2
    /\ ~includes(clipboard, <<"(","x",")">>)

C19_WitnessSingle ==
    /\ clipboard # NoText /\ variant = "single"
    /\ HasAirborneNotes
    /\ includes(clipboard, <<" "," ","-"," ","A","b","b","y"," ","(","t","r","a","c","e",")","\n">>)

SelectedIndexes == {k \in 1..Len(data.members) : Selected(k)}

\* the n-th selected member in roster order
NthSelected(n) ==
    CHOOSE k \in SelectedIndexes : Cardinality({j \in SelectedIndexes : j <= k}) = n

\* the n-th kept restriction of member k
NthKept(k, n) ==
    data.members[k].restrictions[
        CHOOSE r \in Kept(k) : Cardinality({j \in Kept(k) : j <= r}) = n]

\* what follows the item of a restriction on the line of its person
SeveritySuffix(r) ==
    IF r.severity = <<"a","i","r","b","o","r","n","e">> THEN <<" ","(","A","I","R","B","O","R","N","E",")">>
    ELSE IF r.severity # <<"y","e","s">> THEN <<" ","(">> \o r.severity \o <<")">>
    ELSE <<>>

\* the line of member k: the kept restrictions in their order, joined by
\* ", ", or "None" when there is none
PersonLine(k) ==
    (IF variant = "single" THEN <<"<bullet>", " ">> ELSE <<"-"," ">>)
    \o data.members[k].name \o <<":"," ">>
    \o (IF Kept(k) = {} THEN <<"N","o","n","e">>
        ELSE concat([n \in 1..Cardinality(Kept(k)) |->
                (IF n > 1 THEN <<","," ">> ELSE <<>>)
                \o NthKept(k, n).item \o SeveritySuffix(NthKept(k, n))]))
    \o <<"\n">>

PersonLines ==
    <<"\n","R","e","s","t","r","i","c","t","i","o","n","s"," ","b","y"," ","P","e","r","s","o","n",":","\n">>
    \o concat([n \in 1..Cardinality(SelectedIndexes) |-> PersonLine(NthSelected(n))])

EndsWith(text, block) ==
    /\ Len(text) >= Len(block)
    /\ SubSeq(text, Len(text) - Len(block) + 1, Len(text)) = block

\* C20: the text ends with the by-person section, one line per selected
\* member in roster order, which lists the member's restrictions in their
\* order joined by ", ", each item followed by " (AIRBORNE)" for the severity
\* airborne, by " (<severity>)" for a severity other than airborne and yes,
\* by nothing for yes, and which reads "None" exactly for a member without
\* restrictions.
C20_ByPersonSection ==
    (lastCall.called /\ clipboard # NoText) => EndsWith(clipboard, PersonLines)

\* three members: one with an airborne, a small-amounts and a yes
\* restriction, one without restrictions, one with restrictions of yes
C20_Witness ==
    /\ lastCall.called /\ clipboard # NoText
    /\ Cardinality(SelectedIndexes) = 3
    /\ lastCall.attendees[1] # toLowerCase(data.members[1].name)
    /\ \E k \in SelectedIndexes : Kept(k) = {}
    /\ \E k \in SelectedIndexes :
          /\ Cardinality(Kept(k)) = 3
          /\ SeveritySuffix(NthKept(k, 1)) = <<" ","(","A","I","R","B","O","R","N","E",")">>
          /\ SeveritySuffix(NthKept(k, 2)) = <<" ","(","s","m","a","l","l"," ","a","m","o","u","n","t","s",")">>
          /\ SeveritySuffix(NthKept(k, 3)) = <<>>

----------------------------------------------------------------------------
(* Properties of the sync run *)

\* the spreadsheet answered without values or with zero rows
EmptySource == source.kind = "novalues" \/ (source.kind = "values" /\ Len(source.values) = 0)

\* the run has called fetchSheetData and it has returned or thrown
FetchActed ==
    /\ spreadsheetId
    /\ credentials \in {"service_account", "oauth"}
    /\ pc \notin {"config", "credentials", "fetch"}

\* C23: when the data source returns an empty grid (no values, or zero
\* rows), the error the caller of fetchSheetData observes has the code
\* NO_DATA.
C23_EmptyGridIsNoData ==
    (FetchActed /\ EmptySource) => error = "NO_DATA"

\* what the caller observes instead: the code of every other fetch failure
C23_EmptyGridIsApiError ==
    /\ (FetchActed /\ EmptySource) => (pc = "failed" /\ error = "API_ERROR")
    /\ error # "NO_DATA"

C23_Reached == FetchActed /\ EmptySource /\ exitCode = 1

\* the codes of the failures of the steps before the save
EarlyErrors ==
    {"MISSING_CONFIG", "CREDENTIALS_ERROR", "Error", "API_ERROR", "RATE_LIMIT",
     "INSUFFICIENT_DATA"}

FailedEarly == error \in EarlyErrors

C24_FileGuard ==
    /\ error \in EarlyErrors \cup {NoError, "SAVE_ERROR"}
    /\ (pc = "failed") = (error # NoError)
    /\ FailedEarly =>
          /\ dataFile = PreviousFile
          /\ exitCode \in {Running, 1}
          /\ error \in {"MISSING_CONFIG", "CREDENTIALS_ERROR", "Error"} => rows = <<>>
          /\ error # "INSUFFICIENT_DATA" => dietaryData = NoData
    /\ dataFile # PreviousFile =>
          /\ ~testMode
          /\ pc \in {"done", "failed"}
          /\ source.kind = "values" /\ rows = source.values
          /\ parseSheetData(rows).error = NoError
          /\ dietaryData = [members |-> parseSheetData(rows).members,
                            restrictionsList |-> parseSheetData(rows).restrictionsList]
          /\ dataFile.state = "written" => (dataFile.content = dietaryData /\ exitCode = 0)
    /\ exitCode = 1 => pc = "failed"
    /\ exitCode = 0 => pc = "done"

C24_NoStepAfterFailure ==
    pc = "failed" =>
        /\ pc' = "failed"
        /\ <<rows, dietaryData, error, dataFile>>' = <<rows, dietaryData, error, dataFile>>
        /\ exitCode' = 1

\* C24: a sync run is terminal on failure: when the configuration check,
\* the credential loading, the fetch or the parse fails, no later step
\* runs, the data file stays as it was, and the run ends with exit code 1;
\* the data file is written only after a successful parse and never in test
\* mode.
C24_TerminalOnFailure ==
    /\ []C24_FileGuard
    /\ [][C24_NoStepAfterFailure]_vars
    /\ (pc = "failed") ~> (exitCode = 1)

C24_Witness ==
    /\ error = "INSUFFICIENT_DATA" /\ exitCode = 1 /\ dataFile = PreviousFile
    /\ testMode = FALSE /\ disk = "ok"

C24_WitnessWritten ==
    /\ dataFile.state = "written" /\ Len(dataFile.content.members) > 0

----------------------------------------------------------------------------
(* Properties of the download *)

\* the positions of a meal name that give a character of the file name: the
\* characters that are not white space and the first of every run of white space
StemPositions(m) ==
    {i \in 1..Len(m) : m[i] \notin WhiteSpace \/ i = 1 \/ m[i - 1] \notin WhiteSpace}

\* the n-th of these positions
NthStemPosition(m, n) ==
    CHOOSE i \in StemPositions(m) : Cardinality({j \in StemPositions(m) : j <= i}) = n

\* the file name is the meal name, each run of white space one hyphen,
\* followed by the suffix
IsHyphenatedName(name, m, suffix) ==
    /\ Len(name) = Cardinality(StemPositions(m)) + Len(suffix)
    /\ \A n \in 1..Cardinality(StemPositions(m)) :
          name[n] = IF m[NthStemPosition(m, n)] \in WhiteSpace
                      THEN "-" ELSE m[NthStemPosition(m, n)]
    /\ EndsWith(name, suffix)

\* C22: the name of the downloaded file is the generic default when the
\* summary's meal name is empty, and otherwise the meal name with white
\* space replaced by hyphens followed by a fixed suffix, without any white
\* space character; the content of the file is the formatSummaryAsText
\* output for the current summary; nothing is exported while the summary is
\* null.
C22_DownloadNameAndContent ==
    /\ ~summary.present => (download = NoDownload /\ ~downloaded)
    /\ download.done =>
          /\ download.text = formatSummaryAsText(variant, summary)
          /\ IF summary.mealName = <<>>
               THEN download.filename = defaultFileName(variant)
               ELSE /\ IsHyphenatedName(download.filename, summary.mealName,
                                        fileSuffix(variant))
                    /\ \A k \in 1..Len(download.filename) :
                          download.filename[k] \notin WhiteSpace

C22_Witness ==
    /\ download.done
    /\ variant = "stepped"
    /\ summary.mealName = <<"a"," ","\t","b"," ","c">>
    /\ download.filename = <<"a","-","b","-","c","-","d","i","e","t","a","r","y","-",
                             "d","a","s","h","b","o","a","r","d",".","t","x","t">>

C22_WitnessDefault ==
    /\ download.done
    /\ summary.mealName = <<>>
    /\ Len(summary.attendees) = 1

----------------------------------------------------------------------------
(* Properties of the shared link *)

\* the page opened with the link has run its mount effect
OpenedPageMounted == ~mounted /\ mounted'

\* C21: the attendees and meal parameters of the link, decoded on page
\* load, give a summary equal to the one the link was made for, also for
\* member names with a comma and meal names with "%", "&", "," or spaces.
C21_UrlRoundTrip ==
    [][OpenedPageMounted => summary' = sharedLink.summary]_vars

HasCommaName ==
    \E k \in 1..Len(sharedLink.summary.attendees) :
        \E i \in 1..Len(sharedLink.summary.attendees[k]) :
            sharedLink.summary.attendees[k][i] = ","

\* the round trip of the selections without a comma in a name, whatever the
\* meal name
C21_RoundTripWithoutComma ==
    [][(OpenedPageMounted /\ ~HasCommaName) => summary' = sharedLink.summary]_vars

\* a summary with a meal name of special characters came back from its link
C21_MealCameBack ==
    /\ mounted /\ sharedLink.done /\ lastCall.called
    /\ location = paramsOf(sharedLink.url)
    /\ summary = sharedLink.summary
    /\ summary.mealName = <<"a","&","b",",","c">>
    /\ Len(summary.byPerson) = 2

\* the link of a selection with a comma name was opened
C21_CommaNameLost ==
    /\ mounted /\ sharedLink.done /\ HasCommaName
    /\ location = paramsOf(sharedLink.url)
    /\ summary.present
    /\ summary # sharedLink.summary

----------------------------------------------------------------------------
(* Properties of the navigation *)

\* a popstate step: another entry of the same history became current
PopStateStep ==
    /\ history'.entries = history.entries
    /\ history'.index # history.index

\* handleGenerateNew: from the summary step back to the selection with a
\* new history entry
GenerateNewStep ==
    /\ currentStep = 2 /\ currentStep' = 1
    /\ history'.index = history.index + 1

C27_StepOneHasNoSummary ==
    currentStep = 1 => summary = NullSummary

C27_SelectionKept ==
    (PopStateStep \/ GenerateNewStep) =>
        /\ selectedAttendees' = selectedAttendees
        /\ mealName' = mealName

\* C27: in every reachable state of the two-step component currentStep = 1
\* implies summary = null, and handleGenerateNew and popstate leave
\* selectedAttendees and mealName unchanged.
C27_StepAndSummary ==
    /\ []C27_StepOneHasNoSummary
    /\ [][C27_SelectionKept]_vars

\* the back button has taken the page from the summary to the selection
C27_Witness ==
    /\ mounted /\ currentStep = 1 /\ summary = NullSummary
    /\ history.index < Len(history.entries)
    /\ history.entries[history.index + 1].attendees = <<"d","o","v",",","a","b","b","y">>
    /\ selectedAttendees = << <<"d","o","v">>, <<"a","b","b","y">> >>
    /\ mealName = <<"T","e","a">>

\* "Modify Selection" was used and the summary entry is behind
C27_WitnessGenerateNew ==
    /\ currentStep = 1 /\ summary = NullSummary
    /\ history.index = 3 /\ history.entries[2].attendees # NoParam
    /\ location.attendees = NoParam
    /\ Len(selectedAttendees) = 1

----------------------------------------------------------------------------
(* The roster during a session *)

----------------------------------------------------------------------------
(* Properties of the autocomplete *)

\* the members the dropdown offers in the current state
Offered == getFilteredMembers(variant, data, selectedAttendees, searchInput)

C29_IndexInRange ==
    /\ highlightedIndex >= -1
    /\ highlightedIndex <= Len(Offered) - 1

\* a step that adds a name to the selection adds the name of an offered
\* member that was not selected
C29_SelectsOffered ==
    Len(selectedAttendees') > Len(selectedAttendees) =>
        \E k \in 1..Len(Offered) :
            /\ selectedAttendees' = Append(selectedAttendees, toLowerCase(Offered[k].name))
            /\ \A n \in 1..Len(selectedAttendees) :
                  selectedAttendees[n] # toLowerCase(Offered[k].name)

\* C29: in every reachable state of the autocomplete highlightedIndex is
\* between -1 and the number of members getFilteredMembers returns less
\* one, so that Enter selects only a member of the offered list that is not
\* selected yet.
C29_HighlightInRange ==
    /\ []C29_IndexInRange
    /\ [][C29_SelectsOffered]_vars

\* the last of two offered members is highlighted while one is selected
C29_Witness ==
    /\ variant = "stepped"
    /\ highlightedIndex = 1
    /\ Len(Offered) = 2
    /\ Len(selectedAttendees) = 1
    /\ showDropdown

\* C30: the delayed hide started by handleSearchBlur never takes effect
\* after the input has regained the focus: a timer whose blur was followed
\* by a focus or a dropdown mouse-down event is no longer pending.
C30_BlurTimerCancelled ==
    \A k \in 1..Len(blurTimers) : ~blurTimers[k].refocused

\* the stepped component alone
C30_SteppedTimerCancelled ==
    variant = "stepped" =>
        /\ C30_BlurTimerCancelled
        /\ Len(blurTimers) <= 1
        /\ Len(blurTimers) = 1 => blurTimers[1].id = blurTimeoutRef

\* the single-page component: the input has the focus again and the timer of
\* the earlier blur is still to fire
C30_TimerOutlivesFocus ==
    /\ variant = "single"
    /\ focus = "input" /\ showDropdown
    /\ Len(blurTimers) = 1 /\ blurTimers[1].refocused

\* the stepped component has cancelled a timer on focus
C30_SteppedCancelled ==
    /\ variant = "stepped"
    /\ focus = "input" /\ showDropdown
    /\ blurTimeoutRef # 0 /\ blurTimers = <<>>

----------------------------------------------------------------------------
(* Properties of the selection *)

NoNameTwice ==
    \A i, j \in 1..Len(selectedAttendees) :
        selectedAttendees[i] = selectedAttendees[j] => i = j

AllLowerCase ==
    \A i \in 1..Len(selectedAttendees) :
        selectedAttendees[i] = toLowerCase(selectedAttendees[i])

\* a step that takes names out of the selection leaves the others in their
\* order
RemovalKeepsOrder ==
    Len(selectedAttendees') < Len(selectedAttendees) =>
        \E gone \in {selectedAttendees[i] : i \in 1..Len(selectedAttendees)} :
            selectedAttendees' = SelectSeq(selectedAttendees, LAMBDA n : n # gone)

\* C28: starting from an empty selection, after any sequence of
\* handleSelectMember, handleAttendeeChange and handleRemoveMember calls,
\* two select events for the same member before a re-render included,
\* selectedAttendees holds no name twice, every entry is lower-case, and a
\* removal leaves the order of the remaining names unchanged.
C28_SelectionWellFormed ==
    /\ [](NoNameTwice /\ AllLowerCase)
    /\ [][RemovalKeepsOrder]_vars

\* what holds also with the two select events
C28_LowerCaseAndOrder ==
    /\ []AllLowerCase
    /\ [][RemovalKeepsOrder]_vars

\* a name is in the selection twice
C28_NameTwice ==
    /\ Len(selectedAttendees) = 2
    /\ selectedAttendees[1] = selectedAttendees[2]

====
